---- MODULE Spec2Model ----
(***************************************************************************)
(* Flag submission, scoring and rate limiting of the CTF platform.         *)
(*                                                                         *)
(* The model follows the route handlers of src/app/api and the helpers of  *)
(* lib/security, lib/api-utils and lib/rate-limiter.  Every awaited call   *)
(* to the document store is one atomic step taken at the moment the store  *)
(* serves it; the synchronous code between two awaits runs in one step,    *)
(* as it does on the single-threaded event loop.                           *)
(***************************************************************************)
EXTENDS Integers, Sequences, FiniteSets, Bags, TLC

\* ------------------------------------------------------------------------
\* Bounds of the model
\* ------------------------------------------------------------------------

\* Concurrent request slots of the full specification.
NumProcs == 2

\* Number of requests the sequential specification passes to the limiter.
MaxSeqRequests == 6

\* Number of direct calls of checkRateLimit in the limiter's specification.
MaxChecks == 7

\* ------------------------------------------------------------------------
\* Strings: a string is a sequence of characters
\* ------------------------------------------------------------------------

Whitespace == {" "}

WordChars == {"a", "b", "A", "o", "n", "_"}

Lower(c) == IF c = "A" THEN "a" ELSE c

toLowerCase(s) == [i \in 1..Len(s) |-> Lower(s[i])]

RECURSIVE trimStart(_)
trimStart(s) ==
  IF s # <<>> /\ Head(s) \in Whitespace THEN trimStart(Tail(s)) ELSE s

RECURSIVE trimEnd(_)
trimEnd(s) ==
  IF s # <<>> /\ s[Len(s)] \in Whitespace
  THEN trimEnd(SubSeq(s, 1, Len(s) - 1))
  ELSE s

trim(s) == trimEnd(trimStart(s))

\* s.replace(/[<>]/g, "")
stripAngleBrackets(s) == SelectSeq(s, LAMBDA c : c \notin {"<", ">"})

\* Whether the literal `pat` (compared case-insensitively) starts at s[i].
MatchesAt(s, i, pat) ==
  /\ i + Len(pat) - 1 <= Len(s)
  /\ \A k \in 1..Len(pat) : Lower(s[i + k - 1]) = Lower(pat[k])

JavascriptProtocol == <<"j", "a", "v", "a", "s", "c", "r", "i", "p", "t", ":">>

\* s.replace(/javascript:/gi, ""): leftmost matches, not overlapping.
RECURSIVE stripLiteral(_, _)
stripLiteral(s, pat) ==
  IF s = <<>> THEN <<>>
  ELSE IF MatchesAt(s, 1, pat)
  THEN stripLiteral(SubSeq(s, Len(pat) + 1, Len(s)), pat)
  ELSE <<Head(s)>> \o stripLiteral(Tail(s), pat)

\* Length of the longest run of word characters that starts at s[i].
RECURSIVE WordRun(_, _)
WordRun(s, i) ==
  IF i <= Len(s) /\ s[i] \in WordChars THEN 1 + WordRun(s, i + 1) ELSE 0

\* Length of the match of /on\w+=/i at the head of s, 0 when there is none.
\* "=" is no word character, so \w+ takes the whole run of word characters.
EventHandlerAt(s) ==
  IF MatchesAt(s, 1, <<"o", "n">>)
  THEN LET run == WordRun(s, 3)
       IN IF run >= 1 /\ 3 + run <= Len(s) /\ s[3 + run] = "="
          THEN 3 + run
          ELSE 0
  ELSE 0

\* s.replace(/on\w+=/gi, "")
RECURSIVE stripEventHandlers(_)
stripEventHandlers(s) ==
  IF s = <<>> THEN <<>>
  ELSE LET m == EventHandlerAt(s)
       IN IF m > 0
          THEN stripEventHandlers(SubSeq(s, m + 1, Len(s)))
          ELSE <<Head(s)>> \o stripEventHandlers(Tail(s))

SanitizeLimit == 10000

sanitizeInput(input) ==
  IF input = <<>> THEN <<>>
  ELSE LET cleaned == stripEventHandlers(
                        stripLiteral(stripAngleBrackets(trim(input)),
                                     JavascriptProtocol))
       IN SubSeq(cleaned, 1, IF Len(cleaned) < SanitizeLimit
                             THEN Len(cleaned) ELSE SanitizeLimit)

\* ------------------------------------------------------------------------
\* Flag fingerprints (lib/security.ts)
\* ------------------------------------------------------------------------

\* The salted SHA-256 digest, taken as collision free: the digest of a
\* string is the string itself under a tag that no response carries.
Sha256Hex(salt, s) == <<"sha256", salt, s>>

FLAG_HASH_SALT == "salt"

\* A faulty variant of the fingerprint: the flag is trimmed but its case is
\* kept.
hashFlagKeepingCase(flag) == Sha256Hex(FLAG_HASH_SALT, trim(flag))

hashFlag(flag) == Sha256Hex(FLAG_HASH_SALT, toLowerCase(trim(flag)))

\* timingSafeEqual on two digests of the same length.
validateFlag(submittedFlag, storedHash) == hashFlag(submittedFlag) = storedHash

\* The first 16 hex digits of the salted digest of the address.
hashIpAddress(ip) == <<"iphash", ip>>

\* ------------------------------------------------------------------------
\* Rate limiter (lib/rate-limiter.ts)
\* ------------------------------------------------------------------------

RATE_LIMIT_CONFIGS ==
  [flagSubmission |-> [windowMs |-> 60 * 1000, maxRequests |-> 5],
   authentication |-> [windowMs |-> 15 * 60 * 1000, maxRequests |-> 10],
   general        |-> [windowMs |-> 60 * 1000, maxRequests |-> 60],
   passwordReset  |-> [windowMs |-> 60 * 60 * 1000, maxRequests |-> 3]]

ConfigKeys == DOMAIN RATE_LIMIT_CONFIGS

\* An optional numeric field that is absent (undefined) carries this value.
undefined == -1

\* Math.ceil(x / 1000) for x >= 0
CeilSeconds(x) == (x + 999) \div 1000

\* Map.set(key, entry)
MapSet(store, key, entry) ==
  [k \in DOMAIN store \cup {key} |-> IF k = key THEN entry ELSE store[k]]

\* Map.delete over a set of keys
MapDelete(store, keys) == [k \in DOMAIN store \ keys |-> store[k]]

FreshEntry(t) == [count |-> 1, firstRequest |-> t, lastRequest |-> t]

\* A faulty variant of the expiry test: the window ends at its last instant.
windowExpiredInclusive(entry, config, t) ==
  t - entry.firstRequest >= config.windowMs

windowExpired(entry, config, t) == t - entry.firstRequest > config.windowMs

\* A faulty variant of the limit test: the window is full one hit late.
limitOffByOne(entry, config) == entry.count > config.maxRequests

\* The window is full (line 116).
limitReached(entry, config) == entry.count >= config.maxRequests

\* checkRateLimit(identifier, config) at Date.now() = t: the map after the
\* call and the result returned.
checkRateLimit(store, identifier, config, t) ==
  LET key == <<"rate", identifier>>
  IN IF key \notin DOMAIN store
     THEN [store  |-> MapSet(store, key, FreshEntry(t)),
           result |-> [allowed |-> TRUE,
                       remaining |-> config.maxRequests - 1,
                       resetTime |-> t + config.windowMs,
                       retryAfter |-> undefined]]
     ELSE LET entry == store[key]
          IN IF windowExpired(entry, config, t)
             THEN [store  |-> MapSet(store, key, FreshEntry(t)),
                   result |-> [allowed |-> TRUE,
                               remaining |-> config.maxRequests - 1,
                               resetTime |-> t + config.windowMs,
                               retryAfter |-> undefined]]
             ELSE IF limitReached(entry, config)
             THEN [store  |-> store,
                   result |-> [allowed |-> FALSE,
                               remaining |-> 0,
                               resetTime |-> entry.firstRequest + config.windowMs,
                               retryAfter |-> CeilSeconds(entry.firstRequest
                                                + config.windowMs - t)]]
             ELSE LET bumped == [entry EXCEPT !.count = @ + 1,
                                              !.lastRequest = t]
                  IN [store  |-> MapSet(store, key, bumped),
                      result |-> [allowed |-> TRUE,
                                  remaining |-> config.maxRequests - bumped.count,
                                  resetTime |-> bumped.firstRequest + config.windowMs,
                                  retryAfter |-> undefined]]

\* The largest window over all policies.
RECURSIVE SetMax(_)
SetMax(S) ==
  LET x == CHOOSE y \in S : TRUE
  IN IF S = {x} THEN x
     ELSE LET m == SetMax(S \ {x}) IN IF x > m THEN x ELSE m

maxWindow == SetMax({RATE_LIMIT_CONFIGS[k].windowMs : k \in ConfigKeys})

\* A faulty variant of the purge: entries idle for longer than the shortest
\* configured window are removed.
SetMin(S) == CHOOSE x \in S : \A y \in S : x <= y

cleanupAfterShortestWindow(store, t) ==
  MapDelete(store, {k \in DOMAIN store :
     t - store[k].lastRequest >
       SetMin({RATE_LIMIT_CONFIGS[c].windowMs : c \in ConfigKeys})})

\* cleanupExpiredEntries() at Date.now() = t
cleanupExpiredEntries(store, t) ==
  MapDelete(store, {k \in DOMAIN store : t - store[k].lastRequest > maxWindow})

\* applyRateLimit(request, configKey, identifier): the identifier handed to
\* checkRateLimit is `${configKey}:${finalIdentifier}`.
applyRateLimit(store, configKey, finalIdentifier, t) ==
  checkRateLimit(store, <<configKey, finalIdentifier>>,
                 RATE_LIMIT_CONFIGS[configKey], t)

\* createRateLimitHeaders(result): the Retry-After header, present only
\* when result.retryAfter is truthy.
createRateLimitHeaders(result) ==
  [retryAfter |-> IF result.retryAfter # undefined /\ result.retryAfter # 0
                  THEN result.retryAfter
                  ELSE undefined]


\* ------------------------------------------------------------------------
\* The data of the model
\* ------------------------------------------------------------------------

Procs == 1..NumProcs

Uids == {"u1", "u2"}

Ips == {"ip1", "ip2"}

\* The challenges the seeding script wrote: title, points, plaintext flag.
SeededChallenges ==
  [c1 |-> [title |-> "ROT13 Rookie", points |-> 100, flag |-> <<"a">>,
           isActive |-> TRUE],
   c2 |-> [title |-> "Assembly Puzzle", points |-> 250, flag |-> <<"b">>,
           isActive |-> TRUE],
   c3 |-> [title |-> "Base64 Basics", points |-> 100, flag |-> <<"a">>,
           isActive |-> FALSE]]

ChallengeIds == DOMAIN SeededChallenges

\* Titles with an entry in CHALLENGE_SOLUTIONS.
CHALLENGE_SOLUTIONS == {"ROT13 Rookie", "Base64 Basics", "Assembly Puzzle"}

\* Flag hashing of the seeding script ("must match the one in security.ts").
seedHashFlag(flag) == Sha256Hex(FLAG_HASH_SALT, toLowerCase(trim(flag)))

NoChallenge ==
  [exists |-> FALSE, title |-> "", points |-> 0, flagHash |-> <<>>,
   isActive |-> FALSE, solveCount |-> 0]

SeededDoc(c, solveCount) ==
  [exists |-> TRUE, title |-> SeededChallenges[c].title,
   points |-> SeededChallenges[c].points,
   flagHash |-> seedHashFlag(SeededChallenges[c].flag),
   isActive |-> SeededChallenges[c].isActive, solveCount |-> solveCount]

\* A user document; ver stands for the document's update time.
NoUser ==
  [exists |-> FALSE, score |-> 0, solvedChallenges |-> <<>>,
   cheatedChallenges |-> <<>>, displayName |-> <<>>, isAdmin |-> FALSE,
   isBanned |-> FALSE, ver |-> 0]

Range(seq) == {seq[i] : i \in 1..Len(seq)}

includes(seq, x) == x \in Range(seq)

\* FieldValue.arrayUnion(x)
arrayUnion(seq, x) == IF includes(seq, x) THEN seq ELSE Append(seq, x)

RECURSIVE SumPoints(_)
SumPoints(seq) ==
  IF seq = <<>> THEN 0
  ELSE SeededChallenges[Head(seq)].points + SumPoints(Tail(seq))

\* User documents the store may hold when the requests start.
ExistingUser(solved, banned) ==
  [exists |-> TRUE, score |-> SumPoints(solved), solvedChallenges |-> solved,
   cheatedChallenges |-> <<>>, displayName |-> <<"n", "0">>, isAdmin |-> FALSE,
   isBanned |-> banned, ver |-> 1]

InitialUsers ==
  {u \in [Uids -> {NoUser, ExistingUser(<<>>, FALSE),
                   ExistingUser(<<"c2">>, FALSE), ExistingUser(<<>>, TRUE)}] :
     /\ ~u["u1"].isBanned
     /\ u["u2"].exists /\ u["u2"].solvedChallenges = <<>>}

\* The instants the clock visits: the start, and the ends of the windows
\* of the flag-submission policy and of the largest policy.
Instants ==
  {0, 1} \cup UNION {{w, w + 1} : w \in {RATE_LIMIT_CONFIGS.flagSubmission.windowMs,
                                         maxWindow}}

VARIABLES
  users,          \* collection "users": uid -> document
  challenges,     \* collection "challenges": id -> document
  submissions,    \* collection "submissions": a bag of audit records
  rateLimitStore, \* the limiter's Map: key -> entry
  now,            \* Date.now()
  rlTrace,        \* the results checkRateLimit returned, in order
  pc,             \* each request's position in its handler
  req,            \* each request's inputs
  loc,            \* each request's local variables
  resp,           \* each request's response
  initial         \* the users and challenges the store held at the start

vars == <<users, challenges, submissions, rateLimitStore, now, rlTrace,
          pc, req, loc, resp, initial>>

storeVars == <<users, challenges, submissions>>

procVars == <<pc, req, loc, resp, initial>>

NoRequest ==
  [kind |-> "none", uid |-> "", token |-> "", ip |-> "", challengeId |-> "",
   flag |-> <<>>, displayName |-> <<>>]

NoLocals ==
  [userData |-> NoUser, sanitizedFlag |-> <<>>, challenge |-> NoChallenge,
   isCorrect |-> FALSE, txnUser |-> NoUser, attempts |-> 0, calls |-> <<>>]

NoResponse ==
  [status |-> 0, success |-> FALSE, error |-> "", correct |-> "none",
   message |-> "", pointsAwarded |-> undefined, newScore |-> undefined,
   retryAfter |-> undefined, data |-> <<>>]

Init ==
  /\ users \in InitialUsers
  /\ challenges =
       [c \in ChallengeIds |->
          SeededDoc(c, Cardinality({u \in Uids :
                                      includes(users[u].solvedChallenges, c)}))]
  /\ submissions = EmptyBag
  /\ rateLimitStore = <<>>
  /\ now = 0
  /\ rlTrace = <<>>
  /\ pc = [p \in Procs |-> "idle"]
  /\ req = [p \in Procs |-> NoRequest]
  /\ loc = [p \in Procs |-> NoLocals]
  /\ resp = [p \in Procs |-> NoResponse]
  /\ initial = [users |-> users, challenges |-> challenges]

\* ------------------------------------------------------------------------
\* The clock and the limiter on its own
\* ------------------------------------------------------------------------

\* Time passes.
Tick(t) ==
  /\ t > now
  /\ now' = t
  /\ UNCHANGED <<storeVars, rateLimitStore, rlTrace, procVars>>

\* The interval timer runs cleanupExpiredEntries.
Cleanup ==
  /\ rateLimitStore' = cleanupExpiredEntries(rateLimitStore, now)
  /\ UNCHANGED <<storeVars, now, rlTrace, procVars>>

Logged(identifier, result) ==
  Append(rlTrace, [identifier |-> identifier, at |-> now, result |-> result])

\* A caller runs checkRateLimit(`${configKey}:${id}`, RATE_LIMIT_CONFIGS[configKey]).
RLCheck(configKey, id) ==
  /\ Len(rlTrace) < MaxChecks
  /\ LET r == applyRateLimit(rateLimitStore, configKey, id, now)
     IN /\ rateLimitStore' = r.store
        /\ rlTrace' = Logged(<<configKey, id>>, r.result)
  /\ UNCHANGED <<storeVars, now, procVars>>

\* The policies and identifiers of the limiter's own specification.
RLInputs == {<<"flagSubmission", "idA">>, <<"passwordReset", "idA">>}

NextRL ==
  \/ \E t \in Instants : Tick(t)
  \/ Cleanup
  \/ \E i \in RLInputs : RLCheck(i[1], i[2])

\* The limiter's specification leaves the document store alone: one store.
InitRL == Init /\ users = [u \in Uids |-> ExistingUser(<<>>, FALSE)]

SpecRL == InitRL /\ [][NextRL]_vars


\* ------------------------------------------------------------------------
\* Responses and authentication (lib/api-utils.ts)
\* ------------------------------------------------------------------------

GENERIC_ERRORS ==
  [EMAIL_NOT_VERIFIED |-> "Please verify your email address before continuing.",
   RATE_LIMITED       |-> "Too many requests. Please try again later.",
   SERVER_ERROR       |-> "An unexpected error occurred. Please try again.",
   UNAUTHORIZED       |-> "You are not authorized to perform this action.",
   NOT_FOUND          |-> "The requested resource was not found.",
   VALIDATION_FAILED  |-> "Validation failed. Please check your input.",
   FLAG_INCORRECT     |-> "Incorrect flag. Keep trying!",
   FLAG_CORRECT       |-> "Correct! Challenge solved.",
   ALREADY_SOLVED     |-> "You have already solved this challenge."]

errorResponse(error, status) ==
  [NoResponse EXCEPT !.status = status, !.success = FALSE, !.error = error]

\* successResponse(data, message): HTTP 200 with success:true.
successResponse(correct, message, pointsAwarded, newScore) ==
  [NoResponse EXCEPT !.status = 200, !.success = TRUE, !.correct = correct,
                     !.message = message, !.pointsAwarded = pointsAwarded,
                     !.newScore = newScore]

rateLimitedResponse(result) ==
  [NoResponse EXCEPT !.status = 429, !.success = FALSE,
                     !.error = GENERIC_ERRORS.RATE_LIMITED,
                     !.retryAfter = createRateLimitHeaders(result).retryAfter]

\* The bearer credentials a request may carry: "valid" verifies with a
\* verified email, "unverified" verifies without one, and "invalid" stands
\* for a missing, malformed, expired, forged or revoked credential.
TokenKinds == {"valid", "unverified", "invalid"}

NullToken == [ok |-> FALSE, uid |-> "", email_verified |-> FALSE, name |-> <<>>]

\* verifyAuthToken(request): the decoded token, or null.
verifyAuthToken(r) ==
  IF r.token = "invalid" THEN NullToken
  ELSE [ok |-> TRUE, uid |-> r.uid, email_verified |-> (r.token = "valid"),
        name |-> <<"n", "0">>]

\* A faulty variant of authenticateRequest: the ban is tested before the
\* email verification.
authenticateBanFirst(r, docs) ==
  LET decodedToken == verifyAuthToken(r)
      userData == IF decodedToken.ok THEN docs[decodedToken.uid] ELSE NoUser
  IN IF ~decodedToken.ok
     THEN [ok |-> FALSE, userData |-> NoUser,
           response |-> errorResponse(GENERIC_ERRORS.UNAUTHORIZED, 401)]
     ELSE IF userData.exists /\ userData.isBanned
     THEN [ok |-> FALSE, userData |-> NoUser,
           response |-> errorResponse(GENERIC_ERRORS.UNAUTHORIZED, 403)]
     ELSE IF ~decodedToken.email_verified
     THEN [ok |-> FALSE, userData |-> NoUser,
           response |-> errorResponse(GENERIC_ERRORS.EMAIL_NOT_VERIFIED, 403)]
     ELSE [ok |-> TRUE, userData |-> userData, response |-> NoResponse]

\* authenticateRequest(request, requireEmailVerified = true) against the
\* users collection `docs`: the context, or the error response.
authenticateRequest(r, docs) ==
  LET decodedToken == verifyAuthToken(r)
      userData == IF decodedToken.ok THEN docs[decodedToken.uid] ELSE NoUser
  IN IF ~decodedToken.ok
     THEN [ok |-> FALSE, userData |-> NoUser,
           response |-> errorResponse(GENERIC_ERRORS.UNAUTHORIZED, 401)]
     ELSE IF ~decodedToken.email_verified
     THEN [ok |-> FALSE, userData |-> NoUser,
           response |-> errorResponse(GENERIC_ERRORS.EMAIL_NOT_VERIFIED, 403)]
     ELSE IF userData.exists /\ userData.isBanned
     THEN [ok |-> FALSE, userData |-> NoUser,
           response |-> errorResponse(GENERIC_ERRORS.UNAUTHORIZED, 403)]
     ELSE [ok |-> TRUE, userData |-> userData, response |-> NoResponse]

\* ------------------------------------------------------------------------
\* POST /api/challenges/submit
\* ------------------------------------------------------------------------

MaxFlagLength == 256

Respond(p, response) ==
  /\ resp' = [resp EXCEPT ![p] = response]
  /\ pc' = [pc EXCEPT ![p] = "done"]

\* The locals of a request that has returned: only its call history and
\* the challenge it read are kept.
Returned(p, what) ==
  [loc EXCEPT ![p] = [NoLocals EXCEPT !.calls = Append(loc[p].calls, what),
                                      !.challenge = loc[p].challenge,
                                      !.isCorrect = loc[p].isCorrect]]

Called(p, what) == [loc EXCEPT ![p].calls = Append(@, what)]

SubmitRequest(uid, token, ip, challengeId, flag) ==
  [kind |-> "submit", uid |-> uid, token |-> token, ip |-> ip,
   challengeId |-> challengeId, flag |-> flag, displayName |-> <<>>]

\* The request arrives; the handler hashes the client address and calls
\* authenticateRequest, which awaits the identity provider.
StartSubmit(p, request) ==
  /\ pc[p] = "idle"
  /\ req' = [req EXCEPT ![p] = request]
  /\ pc' = [pc EXCEPT ![p] = "auth"]
  /\ UNCHANGED <<storeVars, rateLimitStore, now, rlTrace, loc, resp, initial>>

\* A faulty variant of the authentication step: it records the attempt in
\* the submissions collection before it answers.
SubmitAuthLogging(p) ==
  /\ pc[p] = "auth" /\ req[p].kind = "submit"
  /\ submissions' = submissions (+)
                      SetToBag({[challengeId |-> req[p].challengeId,
                                 userId |-> req[p].uid, status |-> "received",
                                 ipAddress |-> hashIpAddress(req[p].ip)]})
  /\ LET auth == authenticateRequest(req[p], users)
     IN IF ~auth.ok
        THEN /\ Respond(p, auth.response)
             /\ loc' = Returned(p, "auth")
        ELSE /\ pc' = [pc EXCEPT ![p] = "rate"]
             /\ loc' = [Called(p, "auth") EXCEPT ![p].userData = auth.userData]
             /\ UNCHANGED resp
  /\ UNCHANGED <<users, challenges, rateLimitStore, now, rlTrace, req, initial>>

\* authenticateRequest: token verification, then the read of the user
\* document (lines 41-47).
SubmitAuth(p) ==
  /\ pc[p] = "auth" /\ req[p].kind = "submit"
  /\ LET auth == authenticateRequest(req[p], users)
     IN IF ~auth.ok
        THEN /\ Respond(p, auth.response)
             /\ loc' = Returned(p, "auth")
        ELSE /\ pc' = [pc EXCEPT ![p] = "rate"]
             /\ loc' = [Called(p, "auth") EXCEPT ![p].userData = auth.userData]
             /\ UNCHANGED resp
  /\ UNCHANGED <<storeVars, rateLimitStore, now, rlTrace, req, initial>>

\* The key of the flag-submission limit: `${ipHash}:${user.uid}`.
rateLimitKey(r) == <<hashIpAddress(r.ip), r.uid>>

\* A faulty variant of the step: the result of the rate check is logged
\* and the request goes on whatever it was.
SubmitRateLogOnly(p) ==
  /\ pc[p] = "rate"
  /\ LET r == applyRateLimit(rateLimitStore, "flagSubmission",
                             rateLimitKey(req[p]), now)
         sanitizedFlag == sanitizeInput(req[p].flag)
         called == Called(p, "rate")
     IN /\ rateLimitStore' = r.store
        /\ rlTrace' = Logged(<<"flagSubmission", rateLimitKey(req[p])>>, r.result)
        /\ IF req[p].challengeId = "" \/ req[p].flag = <<>>
           THEN /\ Respond(p, errorResponse(GENERIC_ERRORS.VALIDATION_FAILED, 400))
                /\ loc' = Returned(p, "rate")
           ELSE IF Len(sanitizedFlag) = 0 \/ Len(sanitizedFlag) > MaxFlagLength
           THEN /\ Respond(p, errorResponse(GENERIC_ERRORS.VALIDATION_FAILED, 400))
                /\ loc' = Returned(p, "rate")
           ELSE IF includes(loc[p].userData.solvedChallenges, req[p].challengeId)
           THEN /\ Respond(p, successResponse("false",
                                 GENERIC_ERRORS.ALREADY_SOLVED, undefined, undefined))
                /\ loc' = Returned(p, "rate")
           ELSE /\ pc' = [pc EXCEPT ![p] = "fetch"]
                /\ loc' = [called EXCEPT ![p].sanitizedFlag = sanitizedFlag]
                /\ UNCHANGED resp
  /\ UNCHANGED <<storeVars, now, req, initial>>

\* Lines 49-100, run without a suspension that reaches shared state: the
\* rate limit, the body, the validation and the already-solved check.
SubmitRate(p) ==
  /\ pc[p] = "rate"
  /\ LET r == applyRateLimit(rateLimitStore, "flagSubmission",
                             rateLimitKey(req[p]), now)
         sanitizedFlag == sanitizeInput(req[p].flag)
         called == Called(p, "rate")
     IN /\ rateLimitStore' = r.store
        /\ rlTrace' = Logged(<<"flagSubmission", rateLimitKey(req[p])>>, r.result)
        /\ IF ~r.result.allowed
           THEN /\ Respond(p, rateLimitedResponse(r.result))
                /\ loc' = Returned(p, "rate")
           ELSE IF req[p].challengeId = "" \/ req[p].flag = <<>>
           THEN /\ Respond(p, errorResponse(GENERIC_ERRORS.VALIDATION_FAILED, 400))
                /\ loc' = Returned(p, "rate")
           ELSE IF Len(sanitizedFlag) = 0 \/ Len(sanitizedFlag) > MaxFlagLength
           THEN /\ Respond(p, errorResponse(GENERIC_ERRORS.VALIDATION_FAILED, 400))
                /\ loc' = Returned(p, "rate")
           ELSE IF includes(loc[p].userData.solvedChallenges, req[p].challengeId)
           THEN /\ Respond(p, successResponse("false",
                                 GENERIC_ERRORS.ALREADY_SOLVED, undefined, undefined))
                /\ loc' = Returned(p, "rate")
           ELSE /\ pc' = [pc EXCEPT ![p] = "fetch"]
                /\ loc' = [called EXCEPT ![p].sanitizedFlag = sanitizedFlag]
                /\ UNCHANGED resp
  /\ UNCHANGED <<storeVars, now, req, initial>>

\* The document a get of collection "challenges" returns.
challengeDoc(id) == IF id \in DOMAIN challenges THEN challenges[id] ELSE NoChallenge

\* A faulty variant of the fetch step: an inactive challenge is answered
\* differently from an absent one.
SubmitFetchTellingInactive(p) ==
  /\ pc[p] = "fetch"
  /\ LET challenge == challengeDoc(req[p].challengeId)
     IN IF ~challenge.exists
        THEN /\ Respond(p, errorResponse(GENERIC_ERRORS.NOT_FOUND, 404))
             /\ loc' = Returned(p, "fetch")
        ELSE IF ~challenge.isActive
        THEN /\ Respond(p, errorResponse(GENERIC_ERRORS.UNAUTHORIZED, 403))
             /\ loc' = Returned(p, "fetch")
        ELSE /\ pc' = [pc EXCEPT ![p] = "audit"]
             /\ loc' = [Called(p, "match") EXCEPT
                          ![p].challenge = challenge,
                          ![p].isCorrect = validateFlag(loc[p].sanitizedFlag,
                                                        challenge.flagHash)]
             /\ UNCHANGED resp
  /\ UNCHANGED <<storeVars, rateLimitStore, now, rlTrace, req, initial>>

\* Lines 102-119: fetch the challenge and compare the flag.
SubmitFetch(p) ==
  /\ pc[p] = "fetch"
  /\ LET challenge == challengeDoc(req[p].challengeId)
     IN IF ~challenge.exists \/ ~challenge.isActive
        THEN /\ Respond(p, errorResponse(GENERIC_ERRORS.NOT_FOUND, 404))
             /\ loc' = Returned(p, "fetch")
        ELSE /\ pc' = [pc EXCEPT ![p] = "audit"]
             /\ loc' = [Called(p, "match") EXCEPT
                          ![p].challenge = challenge,
                          ![p].isCorrect = validateFlag(loc[p].sanitizedFlag,
                                                        challenge.flagHash)]
             /\ UNCHANGED resp
  /\ UNCHANGED <<storeVars, rateLimitStore, now, rlTrace, req, initial>>

submissionData(p) ==
  [challengeId |-> req[p].challengeId, userId |-> req[p].uid,
   status |-> IF loc[p].isCorrect THEN "correct" ELSE "incorrect",
   ipAddress |-> hashIpAddress(req[p].ip)]

\* A faulty variant of the step: an incorrect flag is answered as a
\* validation error.
SubmitAuditRejecting(p) ==
  /\ pc[p] = "audit"
  /\ submissions' = submissions (+) SetToBag({submissionData(p)})
  /\ loc' = IF loc[p].isCorrect THEN Called(p, "audit") ELSE Returned(p, "audit")
  /\ IF loc[p].isCorrect
     THEN /\ pc' = [pc EXCEPT ![p] = "txn"]
          /\ UNCHANGED resp
     ELSE Respond(p, errorResponse(GENERIC_ERRORS.FLAG_INCORRECT, 400))
  /\ UNCHANGED <<users, challenges, rateLimitStore, now, rlTrace, req, initial>>

\* Lines 121-144 and 211-216: the submission record is added; an incorrect
\* flag is answered here.
SubmitAudit(p) ==
  /\ pc[p] = "audit"
  /\ submissions' = submissions (+) SetToBag({submissionData(p)})
  /\ loc' = IF loc[p].isCorrect THEN Called(p, "audit") ELSE Returned(p, "audit")
  /\ IF loc[p].isCorrect
     THEN /\ pc' = [pc EXCEPT ![p] = "txn"]
          /\ UNCHANGED resp
     ELSE Respond(p, successResponse("false", GENERIC_ERRORS.FLAG_INCORRECT,
                                     undefined, undefined))
  /\ UNCHANGED <<users, challenges, rateLimitStore, now, rlTrace, req, initial>>


\* The document the transaction creates for a user that has none
\* (lines 155-173), and the one the cheat route creates (lines 122-137).
createdUser(decodedToken, cheated) ==
  [exists |-> TRUE, score |-> 0, solvedChallenges |-> <<>>,
   cheatedChallenges |-> cheated, displayName |-> decodedToken.name,
   isAdmin |-> FALSE, isBanned |-> FALSE, ver |-> 0]

\* A faulty variant of the update function: it does not look at the solved
\* challenges it read inside the transaction.
awardWithoutRecheck(userDoc, decodedToken, challengeId, challenge) ==
  [noop |-> FALSE,
   create |-> ~userDoc.exists,
   created |-> createdUser(decodedToken, <<>>),
   newScore |-> (IF userDoc.exists THEN userDoc.score ELSE 0) + challenge.points]

\* A faulty variant of the update function: the new score is the
\* challenge's points alone.
awardForgettingScore(userDoc, decodedToken, challengeId, challenge) ==
  [noop |-> includes(IF userDoc.exists THEN userDoc.solvedChallenges ELSE <<>>,
                     challengeId),
   create |-> ~userDoc.exists,
   created |-> createdUser(decodedToken, <<>>),
   newScore |-> challenge.points]

\* The update function of runTransaction (lines 146-196) on the user
\* document it read: whether it returns without a write, whether it sets
\* a new user document first, and the score it writes.
scoreTransaction(userDoc, decodedToken, challengeId, challenge) ==
  LET currentUserData == IF userDoc.exists THEN userDoc
                         ELSE createdUser(decodedToken, <<>>)
      currentSolved == IF userDoc.exists THEN userDoc.solvedChallenges ELSE <<>>
  IN [noop |-> includes(currentSolved, challengeId),
      create |-> ~userDoc.exists,
      created |-> createdUser(decodedToken, <<>>),
      newScore |-> currentUserData.score + challenge.points]

\* A faulty variant of the writes: for a user without a document the
\* commit holds the set alone, and the award is left to a later write.
createWithoutAward(current, t, challengeId) ==
  IF t.create
  THEN [t.created EXCEPT !.ver = current.ver + 1]
  ELSE [current EXCEPT !.score = t.newScore,
                       !.solvedChallenges = arrayUnion(@, challengeId),
                       !.ver = current.ver + 1]

\* The writes of the transaction applied to the stored user document:
\* transaction.set (lines 168-173) when the read found none, then
\* transaction.update of score and solvedChallenges (lines 185-189).
applyAward(current, t, challengeId) ==
  LET base == IF t.create THEN t.created ELSE current
  IN [base EXCEPT !.score = t.newScore,
                  !.solvedChallenges = arrayUnion(@, challengeId),
                  !.ver = current.ver + 1]

\* A faulty store: a commit is never aborted.
NoConflictCheck(p) == FALSE

\* The store aborts a commit whose read document was written since the read.
TxnConflict(p) == users[req[p].uid].ver # loc[p].txnUser.ver

\* A faulty variant of the attempt: a retry keeps the document of the first
\* attempt and takes only the version of the stored one.
SubmitTxnReadCached(p) ==
  /\ pc[p] = "txn"
  /\ LET userDoc == IF loc[p].attempts = 0 THEN users[req[p].uid]
                    ELSE [loc[p].txnUser EXCEPT !.ver = users[req[p].uid].ver]
         t == scoreTransaction(userDoc, verifyAuthToken(req[p]),
                               req[p].challengeId, loc[p].challenge)
     IN /\ loc' = [Called(p, "txn") EXCEPT ![p].txnUser = userDoc,
                                           ![p].attempts = @ + 1]
        /\ pc' = [pc EXCEPT ![p] = IF t.noop THEN "post" ELSE "commit"]
  /\ UNCHANGED <<storeVars, rateLimitStore, now, rlTrace, req, resp, initial>>

\* One attempt of the transaction starts: transaction.get(userRef), and the
\* update function runs on what it read.  An attempt that writes nothing
\* ends here.
SubmitTxnRead(p) ==
  /\ pc[p] = "txn"
  /\ LET userDoc == users[req[p].uid]
         t == scoreTransaction(userDoc, verifyAuthToken(req[p]),
                               req[p].challengeId, loc[p].challenge)
     IN /\ loc' = [Called(p, "txn") EXCEPT ![p].txnUser = userDoc,
                                           ![p].attempts = @ + 1]
        /\ pc' = [pc EXCEPT ![p] = IF t.noop THEN "post" ELSE "commit"]
  /\ UNCHANGED <<storeVars, rateLimitStore, now, rlTrace, req, resp, initial>>

\* A faulty variant of the commit: the user document is written, and the
\* write of the challenge's counter is lost.
PartialCommit(p) ==
  /\ pc[p] = "commit"
  /\ IF TxnConflict(p)
     THEN /\ pc' = [pc EXCEPT ![p] = "txn"]
          /\ UNCHANGED <<users, challenges>>
     ELSE LET t == scoreTransaction(loc[p].txnUser, verifyAuthToken(req[p]),
                                    req[p].challengeId, loc[p].challenge)
          IN /\ users' = [users EXCEPT ![req[p].uid] =
                            applyAward(@, t, req[p].challengeId)]
             /\ UNCHANGED challenges
             /\ pc' = [pc EXCEPT ![p] = "post"]
  /\ UNCHANGED <<submissions, rateLimitStore, now, rlTrace, req, loc, resp, initial>>

\* The attempt commits its writes in one atomic unit, or is aborted by a
\* conflicting write and runs again.
SubmitTxnCommit(p) ==
  /\ pc[p] = "commit"
  /\ IF TxnConflict(p)
     THEN /\ pc' = [pc EXCEPT ![p] = "txn"]
          /\ UNCHANGED <<users, challenges>>
     ELSE LET t == scoreTransaction(loc[p].txnUser, verifyAuthToken(req[p]),
                                    req[p].challengeId, loc[p].challenge)
          IN /\ users' = [users EXCEPT ![req[p].uid] =
                            applyAward(@, t, req[p].challengeId)]
             /\ challenges' = [challenges EXCEPT ![req[p].challengeId].solveCount = @ + 1]
             /\ pc' = [pc EXCEPT ![p] = "post"]
  /\ UNCHANGED <<submissions, rateLimitStore, now, rlTrace, req, loc, resp, initial>>

\* Lines 198-210: the user document is read again and the award reported.
SubmitPost(p) ==
  /\ pc[p] = "post"
  /\ Respond(p, successResponse("true", GENERIC_ERRORS.FLAG_CORRECT,
                                loc[p].challenge.points,
                                users[req[p].uid].score))
  /\ loc' = Returned(p, "respond")
  /\ UNCHANGED <<storeVars, rateLimitStore, now, rlTrace, req, initial>>

\* A faulty variant of the catch block: the handler starts over from the
\* fetch of the challenge instead of answering.
SubmitStoreErrorRetrying(p) ==
  /\ pc[p] \in {"fetch", "audit", "txn", "commit", "post"}
  /\ pc' = [pc EXCEPT ![p] = "fetch"]
  /\ loc' = Called(p, "catch")
  /\ UNCHANGED <<storeVars, rateLimitStore, now, rlTrace, req, resp, initial>>

\* A call to the document store inside the try block throws (the store is
\* unavailable, or the transaction gives up): lines 217-225.
SubmitStoreError(p) ==
  /\ pc[p] \in {"fetch", "audit", "txn", "commit", "post"}
  /\ Respond(p, errorResponse(GENERIC_ERRORS.SERVER_ERROR, 500))
  /\ loc' = Returned(p, "catch")
  /\ UNCHANGED <<storeVars, rateLimitStore, now, rlTrace, req, initial>>


\* ------------------------------------------------------------------------
\* POST /api/challenges/cheat
\* ------------------------------------------------------------------------

\* The handler starts with the general rate limit, keyed by the address hash.
StartLimited(p, request, nextPc) ==
  /\ pc[p] = "idle"
  /\ req' = [req EXCEPT ![p] = request]
  /\ LET r == applyRateLimit(rateLimitStore, "general",
                             hashIpAddress(request.ip), now)
     IN /\ rateLimitStore' = r.store
        /\ rlTrace' = Logged(<<"general", hashIpAddress(request.ip)>>, r.result)
        /\ IF ~r.result.allowed
           THEN Respond(p, rateLimitedResponse(r.result))
           ELSE /\ pc' = [pc EXCEPT ![p] = nextPc]
                /\ UNCHANGED resp
  /\ loc' = IF pc'[p] = "done" THEN Returned(p, "rate") ELSE Called(p, "rate")
  /\ UNCHANGED <<storeVars, now, initial>>

CheatRequest(uid, token, ip, challengeId) ==
  [kind |-> "cheat", uid |-> uid, token |-> token, ip |-> ip,
   challengeId |-> challengeId, flag |-> <<>>, displayName |-> <<>>]

StartCheat(p, request) == StartLimited(p, request, "auth")

\* Lines 75-88: authentication, then the body.
CheatAuth(p) ==
  /\ pc[p] = "auth" /\ req[p].kind = "cheat"
  /\ LET auth == authenticateRequest(req[p], users)
     IN IF ~auth.ok
        THEN Respond(p, auth.response)
        ELSE IF req[p].challengeId = ""
        THEN Respond(p, errorResponse("Challenge ID is required", 400))
        ELSE /\ pc' = [pc EXCEPT ![p] = "c_fetch"]
             /\ UNCHANGED resp
  /\ loc' = IF pc'[p] = "done" THEN Returned(p, "auth") ELSE Called(p, "auth")
  /\ UNCHANGED <<storeVars, rateLimitStore, now, rlTrace, req, initial>>

\* Lines 90-109: the challenge and its solution.
CheatFetch(p) ==
  /\ pc[p] = "c_fetch"
  /\ LET challenge == challengeDoc(req[p].challengeId)
     IN IF ~challenge.exists
        THEN Respond(p, errorResponse("Challenge not found", 404))
        ELSE IF challenge.title \notin CHALLENGE_SOLUTIONS
        THEN Respond(p, errorResponse("Solution not available for this challenge", 404))
        ELSE /\ pc' = [pc EXCEPT ![p] = "c_read"]
             /\ UNCHANGED resp
  /\ loc' = IF pc'[p] = "done" THEN Returned(p, "fetch") ELSE Called(p, "fetch")
  /\ UNCHANGED <<storeVars, rateLimitStore, now, rlTrace, req, initial>>

\* Line 113: userRef.get()
CheatRead(p) ==
  /\ pc[p] = "c_read"
  /\ loc' = [Called(p, "read") EXCEPT ![p].userData = users[req[p].uid]]
  /\ pc' = [pc EXCEPT ![p] = "c_write"]
  /\ UNCHANGED <<storeVars, rateLimitStore, now, rlTrace, req, resp, initial>>

\* The user document after the write of lines 115-138, decided by what
\* the read of line 113 saw: an update of cheatedChallenges, or a set of
\* the whole document.
cheatWrite(current, seen, decodedToken, challengeId) ==
  IF seen.exists
  THEN [current EXCEPT !.cheatedChallenges = arrayUnion(@, challengeId),
                       !.ver = @ + 1]
  ELSE [createdUser(decodedToken, <<challengeId>>) EXCEPT !.ver = current.ver + 1]

CheatWrite(p) ==
  /\ pc[p] = "c_write"
  /\ users' = [users EXCEPT ![req[p].uid] =
                 cheatWrite(@, loc[p].userData, verifyAuthToken(req[p]),
                            req[p].challengeId)]
  /\ Respond(p, successResponse("none",
                   "This cheat has been recorded on your profile.",
                   undefined, undefined))
  /\ loc' = Returned(p, "write")
  /\ UNCHANGED <<challenges, submissions, rateLimitStore, now, rlTrace, req, initial>>

\* A store call of the cheat route throws: lines 148-151.
CheatStoreError(p) ==
  /\ pc[p] \in {"c_fetch", "c_read", "c_write"}
  /\ Respond(p, errorResponse("Failed to process cheat request", 500))
  /\ loc' = Returned(p, "catch")
  /\ UNCHANGED <<storeVars, rateLimitStore, now, rlTrace, req, initial>>

\* ------------------------------------------------------------------------
\* PATCH /api/user/profile
\* ------------------------------------------------------------------------

NameChars == {"a", "b", "A", "n", "o", "0", "_", "-", " "}

NameLimit == 50

sanitizeDisplayName(name) ==
  IF name = <<>> THEN <<>>
  ELSE LET kept == SelectSeq(trim(name), LAMBDA c : c \in NameChars)
       IN SubSeq(kept, 1, IF Len(kept) < NameLimit THEN Len(kept) ELSE NameLimit)

MinNameLength == 2

ProfileRequest(uid, token, ip, displayName) ==
  [kind |-> "profile", uid |-> uid, token |-> token, ip |-> ip,
   challengeId |-> "", flag |-> <<>>, displayName |-> displayName]

StartProfile(p, request) == StartLimited(p, request, "auth")

\* Lines 79-109: authentication, the body, the display name.
ProfileAuth(p) ==
  /\ pc[p] = "auth" /\ req[p].kind = "profile"
  /\ LET auth == authenticateRequest(req[p], users)
     IN IF ~auth.ok
        THEN Respond(p, auth.response)
        ELSE IF Len(sanitizeDisplayName(req[p].displayName)) < MinNameLength
        THEN Respond(p, errorResponse("Display name must be at least 2 characters", 400))
        ELSE /\ pc' = [pc EXCEPT ![p] = "p_write"]
             /\ UNCHANGED resp
  /\ loc' = IF pc'[p] = "done" THEN Returned(p, "auth") ELSE Called(p, "auth")
  /\ UNCHANGED <<storeVars, rateLimitStore, now, rlTrace, req, initial>>

\* A faulty variant of the write: the whole document is set from the
\* defaults and the new display name.
ProfileWriteWholeDocument(p) ==
  /\ pc[p] = "p_write"
  /\ IF users[req[p].uid].exists
     THEN /\ users' = [users EXCEPT ![req[p].uid] =
                         [ExistingUser(<<>>, FALSE) EXCEPT
                            !.displayName = sanitizeDisplayName(req[p].displayName),
                            !.ver = users[req[p].uid].ver + 1]]
          /\ Respond(p, successResponse("none", "updated", undefined, undefined))
     ELSE /\ Respond(p, errorResponse(GENERIC_ERRORS.SERVER_ERROR, 500))
          /\ UNCHANGED users
  /\ loc' = Returned(p, "write")
  /\ UNCHANGED <<challenges, submissions, rateLimitStore, now, rlTrace, req, initial>>

\* Line 111: update of displayName and updatedAt; the update of a missing
\* document throws.
ProfileWrite(p) ==
  /\ pc[p] = "p_write"
  /\ IF users[req[p].uid].exists
     THEN /\ users' = [users EXCEPT ![req[p].uid] =
                         [@ EXCEPT !.displayName = sanitizeDisplayName(req[p].displayName),
                                   !.ver = @ + 1]]
          /\ Respond(p, successResponse("none", "updated", undefined, undefined))
     ELSE /\ Respond(p, errorResponse(GENERIC_ERRORS.SERVER_ERROR, 500))
          /\ UNCHANGED users
  /\ loc' = Returned(p, "write")
  /\ UNCHANGED <<challenges, submissions, rateLimitStore, now, rlTrace, req, initial>>

\* ------------------------------------------------------------------------
\* GET /api/challenges and GET /api/challenges/[id]
\* ------------------------------------------------------------------------

ReadRequest(kind, uid, token, ip, challengeId) ==
  [kind |-> kind, uid |-> uid, token |-> token, ip |-> ip,
   challengeId |-> challengeId, flag |-> <<>>, displayName |-> <<>>]

\* A faulty variant of the public format: the stored document as it is.
wholeDocument(id, data, solvedChallenges) ==
  [id |-> id, title |-> data.title, points |-> data.points,
   solveCount |-> data.solveCount, isSolved |-> includes(solvedChallenges, id),
   flagHash |-> data.flagHash]

\* The public format of a challenge document (ChallengePublic).
publicChallenge(id, data, solvedChallenges) ==
  [id |-> id, title |-> data.title, points |-> data.points,
   solveCount |-> data.solveCount, isSolved |-> includes(solvedChallenges, id)]

\* The ids of collection "challenges" in the order of the query.
OrderedChallengeIds == <<"c1", "c2", "c3">>

StartRead(p, request) == StartLimited(p, request, "auth")

\* authenticateRequest of the two read handlers.
ReadAuth(p) ==
  /\ pc[p] = "auth" /\ req[p].kind \in {"list", "read"}
  /\ LET auth == authenticateRequest(req[p], users)
     IN IF ~auth.ok
        THEN /\ Respond(p, auth.response)
             /\ loc' = Returned(p, "auth")
        ELSE /\ pc' = [pc EXCEPT ![p] = "r_fetch"]
             /\ loc' = [Called(p, "auth") EXCEPT ![p].userData = auth.userData]
             /\ UNCHANGED resp
  /\ UNCHANGED <<storeVars, rateLimitStore, now, rlTrace, req, initial>>

\* The query for the active challenges, or the get of one challenge, and
\* the response in public format.
ReadFetch(p) ==
  /\ pc[p] = "r_fetch"
  /\ LET solvedChallenges == loc[p].userData.solvedChallenges
         challenge == challengeDoc(req[p].challengeId)
         active == SelectSeq(OrderedChallengeIds,
                             LAMBDA c : challenges[c].isActive)
     IN IF req[p].kind = "list"
        THEN Respond(p, [successResponse("none", "", undefined, undefined)
                           EXCEPT !.data =
                             [i \in 1..Len(active) |->
                                publicChallenge(active[i], challenges[active[i]],
                                                solvedChallenges)]])
        ELSE IF ~challenge.exists \/ ~challenge.isActive
        THEN Respond(p, errorResponse(GENERIC_ERRORS.NOT_FOUND, 404))
        ELSE Respond(p, [successResponse("none", "", undefined, undefined)
                           EXCEPT !.data =
                             <<publicChallenge(req[p].challengeId, challenge,
                                               solvedChallenges)>>])
  /\ loc' = Returned(p, "fetch")
  /\ UNCHANGED <<storeVars, rateLimitStore, now, rlTrace, req, initial>>

\* A store call of a read handler throws: the catch blocks.
ReadStoreError(p) ==
  /\ pc[p] = "r_fetch"
  /\ Respond(p, errorResponse(IF req[p].kind = "list"
                              THEN "Failed to fetch challenges"
                              ELSE "Failed to fetch challenge", 500))
  /\ loc' = Returned(p, "catch")
  /\ UNCHANGED <<storeVars, rateLimitStore, now, rlTrace, req, initial>>

\* ------------------------------------------------------------------------
\* Specifications
\* ------------------------------------------------------------------------

\* The requests of the concurrent specification: correct flags for two
\* challenges and a wrong one under one identity, a correct flag under
\* another, a cheat-reveal and a profile edit.
ConcurrentSubmits ==
  {SubmitRequest("u1", "valid", "ip1", "c1", <<"a">>),
   SubmitRequest("u1", "valid", "ip1", "c2", <<"b">>),
   SubmitRequest("u1", "valid", "ip1", "c1", <<"b">>),
   SubmitRequest("u2", "valid", "ip1", "c1", <<"a">>)}

ConcurrentCheats == {CheatRequest("u1", "valid", "ip1", "c1")}

ConcurrentProfiles == {ProfileRequest("u1", "valid", "ip1", <<"a", "b">>)}

SubmitStep(p) ==
  \/ SubmitAuth(p)
  \/ SubmitRate(p)
  \/ SubmitFetch(p)
  \/ SubmitAudit(p)
  \/ SubmitTxnRead(p)
  \/ SubmitTxnCommit(p)
  \/ SubmitPost(p)

CheatStep(p) ==
  \/ CheatAuth(p)
  \/ CheatFetch(p)
  \/ CheatRead(p)
  \/ CheatWrite(p)

ProfileStep(p) ==
  \/ ProfileAuth(p)
  \/ ProfileWrite(p)

Next ==
  \/ \E p \in Procs, r \in ConcurrentSubmits : StartSubmit(p, r)
  \/ \E p \in Procs, r \in ConcurrentCheats : StartCheat(p, r)
  \/ \E p \in Procs, r \in ConcurrentProfiles : StartProfile(p, r)
  \/ \E p \in Procs : SubmitStep(p)
  \/ \E p \in Procs : CheatStep(p)
  \/ \E p \in Procs : ProfileStep(p)
  \/ \E p \in Procs : SubmitStoreError(p)
  \/ \E p \in Procs : CheatStoreError(p)

\* The concurrent specification starts with u2 present and not banned.
InitConcurrent == Init /\ ~users["u2"].isBanned

Spec == InitConcurrent /\ [][Next]_vars


\* The requests of the sequential specification: one identity from two
\* addresses, a second identity, a wrong flag, and requests that fail
\* authentication or validation.
SequentialSubmits ==
  {SubmitRequest("u1", "valid", "ip1", "c1", <<"a">>),
   SubmitRequest("u1", "valid", "ip2", "c1", <<"a">>),
   SubmitRequest("u2", "valid", "ip1", "c1", <<"a">>),
   SubmitRequest("u1", "valid", "ip1", "c1", <<"b">>),
   SubmitRequest("u1", "invalid", "ip1", "c1", <<"a">>),
   SubmitRequest("u1", "unverified", "ip1", "c1", <<"a">>),
   SubmitRequest("u1", "valid", "ip1", "c1", <<>>),
   SubmitRequest("u1", "valid", "ip1", "c1", <<"<", " ">>)}

\* The response has been sent; the slot takes the next request.
Recycle(p) ==
  /\ pc[p] = "done"
  /\ pc' = [pc EXCEPT ![p] = "idle"]
  /\ req' = [req EXCEPT ![p] = NoRequest]
  /\ loc' = [loc EXCEPT ![p] = NoLocals]
  /\ resp' = [resp EXCEPT ![p] = NoResponse]
  /\ UNCHANGED <<storeVars, rateLimitStore, now, rlTrace, initial>>

\* Submissions handled one after the other, each arriving after the
\* response to the one before.
NextSeq ==
  \/ \E r \in SequentialSubmits : Len(rlTrace) < MaxSeqRequests /\ StartSubmit(1, r)
  \/ SubmitStep(1)
  \/ Recycle(1)
  \/ Tick(RATE_LIMIT_CONFIGS.flagSubmission.windowMs + 1)

SpecSeq == Init /\ [][NextSeq]_vars


\* Concurrent submissions alone, with a store that serves every call.
NextSubmit ==
  \/ \E p \in Procs, r \in ConcurrentSubmits : StartSubmit(p, r)
  \/ \E p \in Procs : SubmitStep(p)

SpecSubmit == InitConcurrent /\ [][NextSubmit]_vars


\* The requests of the in-order specification: right and wrong flags, a
\* flag in another case with surrounding space, an inactive challenge (c3)
\* and a challenge id the store does not hold (c9).
OrderedSubmits ==
  {SubmitRequest("u1", "valid", "ip1", "c1", <<"a">>),
   SubmitRequest("u1", "valid", "ip1", "c1", <<" ", "A">>),
   SubmitRequest("u1", "valid", "ip1", "c2", <<"b">>),
   SubmitRequest("u1", "valid", "ip1", "c1", <<"b">>),
   SubmitRequest("u2", "valid", "ip1", "c1", <<"a">>),
   SubmitRequest("u1", "valid", "ip1", "c3", <<"a">>),
   SubmitRequest("u1", "valid", "ip1", "c9", <<"a">>)}

\* Each slot's request arrives after the response to the slot before.
NextInOrder ==
  \/ \E p \in Procs, r \in OrderedSubmits :
       /\ \A q \in Procs : (q < p => pc[q] = "done") /\ (q > p => pc[q] = "idle")
       /\ StartSubmit(p, r)
  \/ \E p \in Procs : SubmitStep(p)
  \/ Tick(RATE_LIMIT_CONFIGS.flagSubmission.windowMs + 1)

SpecInOrder == Init /\ [][NextInOrder]_vars


\* The secrets of the flag specification: plain ones, ones that differ in
\* case or surrounding space, and ones holding what sanitizeInput removes.
Secrets ==
  {<<"a">>, <<"A">>, <<" ", "a">>, <<"b">>, <<"a", "b">>,
   <<"a", "<">>, <<"<", "a", ">">>, <<"o", "n", "a", "=", "b">>}

\* The seeding script wrote challenge c1 with the fingerprint of secret S.
SeededWith(S) ==
  [c \in ChallengeIds |->
     IF c = "c1" THEN [SeededDoc(c, 0) EXCEPT !.flagHash = seedHashFlag(S)]
     ELSE SeededDoc(c, 0)]

InitFlags ==
  /\ users = [u \in Uids |-> ExistingUser(<<>>, FALSE)]
  /\ \E S \in Secrets : challenges = SeededWith(S)
  /\ submissions = EmptyBag
  /\ rateLimitStore = <<>>
  /\ now = 0
  /\ rlTrace = <<>>
  /\ pc = [p \in Procs |-> "idle"]
  /\ req = [p \in Procs |-> NoRequest]
  /\ loc = [p \in Procs |-> NoLocals]
  /\ resp = [p \in Procs |-> NoResponse]
  /\ initial = [users |-> users, challenges |-> challenges]

\* The read requests of the flag specification.
FlagReads ==
  {ReadRequest("list", "u1", "valid", "ip1", ""),
   ReadRequest("read", "u1", "valid", "ip1", "c1"),
   ReadRequest("read", "u1", "valid", "ip1", "c3")}

\* Slot p takes the next request after the response to the slot before.
InTurn(p) ==
  \A q \in Procs : (q < p => pc[q] = "done") /\ (q > p => pc[q] = "idle")

\* Submissions of every secret for c1 and reads of the challenges, each
\* after the response before, with a store that may fail.
NextFlags ==
  \/ \E p \in Procs, S \in Secrets :
       /\ InTurn(p)
       /\ StartSubmit(p, SubmitRequest("u1", "valid", "ip1", "c1", S))
  \/ \E p \in Procs, r \in FlagReads : InTurn(p) /\ StartRead(p, r)
  \/ \E p \in Procs : SubmitStep(p)
  \/ \E p \in Procs : ReadAuth(p)
  \/ \E p \in Procs : ReadFetch(p)
  \/ \E p \in Procs : SubmitStoreError(p)
  \/ \E p \in Procs : ReadStoreError(p)

SpecFlags == InitFlags /\ [][NextFlags]_vars

\* The requests of the authentication specification: every credential kind
\* for a user that may have no document and for one that may be banned, on
\* a writing handler, the profile handler and a reading handler.
AuthRequests ==
  UNION {{SubmitRequest(u, k, "ip1", "c1", <<"a">>),
          ProfileRequest(u, k, "ip1", <<"a", "b">>),
          ReadRequest("list", u, k, "ip1", "")} : u \in Uids, k \in TokenKinds}

NextAuth ==
  \/ \E p \in Procs, r \in {a \in AuthRequests : a.kind = "submit"} :
       StartSubmit(p, r)
  \/ \E p \in Procs, r \in {a \in AuthRequests : a.kind = "profile"} :
       StartProfile(p, r)
  \/ \E p \in Procs, r \in {a \in AuthRequests : a.kind = "list"} :
       StartRead(p, r)
  \/ \E p \in Procs : SubmitStep(p)
  \/ \E p \in Procs : ProfileStep(p)
  \/ \E p \in Procs : ReadAuth(p)
  \/ \E p \in Procs : ReadFetch(p)

SpecAuth == Init /\ [][NextAuth]_vars

\* Submissions whose calls to the identity provider and to the store all
\* return, with a value or with an error: the continuation of a handler
\* that waits for a call runs once the call has returned.
LiveSubmits ==
  {SubmitRequest("u1", "valid", "ip1", "c1", <<"a">>),
   SubmitRequest("u1", "valid", "ip1", "c1", <<"b">>)}

NextLive ==
  \/ \E p \in Procs, r \in LiveSubmits : StartSubmit(p, r)
  \/ \E p \in Procs : SubmitStep(p)
  \/ \E p \in Procs : SubmitStoreError(p)

Fairness == \A p \in Procs : WF_vars(SubmitStep(p) \/ SubmitStoreError(p))

SpecLive == InitConcurrent /\ [][NextLive]_vars /\ Fairness




\* ------------------------------------------------------------------------
\* Properties
\* ------------------------------------------------------------------------

RECURSIVE PointsOf(_)
\* The points of a set of challenges.
PointsOf(S) ==
  IF S = {} THEN 0
  ELSE LET c == CHOOSE x \in S : TRUE
       IN SeededChallenges[c].points + PointsOf(S \ {c})

\* Number of occurrences of x in seq.
Count(seq, x) == Cardinality({i \in 1..Len(seq) : seq[i] = x})

\* Every request received has been answered.
Quiescent == \A p \in Procs : pc[p] \in {"idle", "done"}

\* Slot p holds a submit request of identity u carrying the right flag of c.
CarriesCorrectFlag(p, u, c) ==
  /\ req[p].kind = "submit" /\ req[p].uid = u /\ req[p].challengeId = c
  /\ validateFlag(sanitizeInput(req[p].flag), challengeDoc(c).flagHash)

\* The active challenges u had not solved at the start and has submitted
\* the right flag of.
Won(u) ==
  {c \in ChallengeIds :
     /\ challenges[c].isActive
     /\ ~includes(initial.users[u].solvedChallenges, c)
     /\ \E p \in Procs : pc[p] = "done" /\ CarriesCorrectFlag(p, u, c)}

\* C1: idempotent scoring under concurrency.  When every submit request
\* has been answered, for every identity U and every active challenge C
\* that U had not solved and for which one or more requests carried the
\* right flag (in whatever interleaving, transaction retries included):
\* U's score has grown by C's points exactly once, C occurs exactly once
\* in U's solved challenges, and C's solve counter has grown by exactly
\* one for each such identity.
C1_IdempotentScoring ==
  Quiescent =>
    /\ \A u \in Uids :
         /\ users[u].score = initial.users[u].score + PointsOf(Won(u))
         /\ \A c \in Won(u) : Count(users[u].solvedChallenges, c) = 1
    /\ \A c \in ChallengeIds :
         challenges[c].solveCount =
           initial.challenges[c].solveCount
             + Cardinality({u \in Uids : c \in Won(u)})

\* Two requests with the right flag of c1 under u1 overlapped: both were
\* answered correct, and one of them ran its transaction twice.
C1_Witness ==
  /\ Quiescent
  /\ \A p \in Procs : /\ pc[p] = "done"
                      /\ CarriesCorrectFlag(p, "u1", "c1")
                      /\ resp[p].correct = "true"
  /\ \E p \in Procs : Count(loc[p].calls, "txn") = 2

\* C2: the user-record invariant.  In every reachable state, under every
\* interleaving of submissions, cheat-reveals and profile edits, the score
\* of each user document is the sum of the points of its solved
\* challenges, and no challenge occurs twice among them.
C2_UserRecordInvariant ==
  \A u \in Uids :
    users[u].exists =>
      /\ users[u].score = SumPoints(users[u].solvedChallenges)
      /\ \A c \in ChallengeIds : Count(users[u].solvedChallenges, c) <= 1

\* u1 holds two solved challenges and a recorded cheat-reveal.
C2_Witness ==
  /\ users["u1"].score = 350
  /\ Len(users["u1"].solvedChallenges) = 2
  /\ users["u1"].cheatedChallenges # <<>>
  /\ \E p \in Procs : req[p].kind = "cheat" /\ resp[p].status = 200

\* C3: the cheat-reveal never corrupts scoring state.  The step in which a
\* cheat-reveal request writes the user document leaves every user's score
\* and solved challenges, and every challenge's solve counter, as they
\* were committed.
C3_CheatLeavesLedger ==
  [][\A p \in Procs :
       (pc[p] = "c_write" /\ pc'[p] = "done" /\ resp'[p].status = 200) =>
         /\ \A u \in Uids :
              /\ users'[u].score = users[u].score
              /\ users'[u].solvedChallenges = users[u].solvedChallenges
         /\ \A c \in ChallengeIds :
              challenges'[c].solveCount = challenges[c].solveCount]_vars

\* u1 was answered correct for c1 with a score of 100 and c1's counter
\* grew, and after the cheat-reveal the user document holds score 0 and no
\* solved challenge.
C3_LostAward ==
  /\ \E p \in Procs : /\ req[p].kind = "submit" /\ pc[p] = "done"
                      /\ CarriesCorrectFlag(p, "u1", "c1")
                      /\ resp[p].correct = "true" /\ resp[p].newScore = 100
  /\ \E p \in Procs : req[p].kind = "cheat" /\ resp[p].status = 200
  /\ users["u1"].exists
  /\ users["u1"].score = 0 /\ users["u1"].solvedChallenges = <<>>
  /\ challenges["c1"].solveCount = initial.challenges["c1"].solveCount + 1

\* The checks of identifier id answered allowed since the window of entry
\* started.
AllowedInWindow(id, entry) ==
  Cardinality({i \in 1..Len(rlTrace) :
                 /\ rlTrace[i].identifier = id
                 /\ rlTrace[i].result.allowed
                 /\ rlTrace[i].at >= entry.firstRequest})

\* C4: the rate-window invariant.  For every key of the window map and its
\* policy, in every reachable state the stored count is at most
\* maxRequests, and the number of checks answered allowed during the
\* stored window is the stored count (no hit is lost), hence at most
\* maxRequests.
C4_RateWindowInvariant ==
  \A k \in DOMAIN rateLimitStore :
    LET id == k[2]
        config == RATE_LIMIT_CONFIGS[id[1]]
        entry == rateLimitStore[k]
    IN /\ entry.count <= config.maxRequests
       /\ AllowedInWindow(id, entry) = entry.count
       /\ AllowedInWindow(id, entry) <= config.maxRequests

FlagId == <<"flagSubmission", "idA">>

FlagKey == <<"rate", FlagId>>

\* The flag-submission window is full and has rejected a check, next to a
\* window of another policy.
C4_Witness ==
  /\ FlagKey \in DOMAIN rateLimitStore
  /\ rateLimitStore[FlagKey].count = RATE_LIMIT_CONFIGS.flagSubmission.maxRequests
  /\ \E i \in 1..Len(rlTrace) :
       rlTrace[i].identifier = FlagId /\ ~rlTrace[i].result.allowed
  /\ <<"rate", <<"passwordReset", "idA">>>> \in DOMAIN rateLimitStore

\* C5: rate window P4.  Under the flag-submission policy (5 per 60000 ms),
\* a check of an identifier without a window is allowed and starts one
\* with count 1; inside the window a check is allowed exactly while fewer
\* than 5 were; and once 60000 ms have elapsed since the window's start
\* (now - start >= windowMs) the check is allowed and starts a fresh
\* window with count 1.
C5_WindowP4 ==
  [][(Len(rlTrace') = Len(rlTrace) + 1
        /\ rlTrace'[Len(rlTrace')].identifier = FlagId) =>
       LET result == rlTrace'[Len(rlTrace')].result
           config == RATE_LIMIT_CONFIGS.flagSubmission
       IN IF FlagKey \notin DOMAIN rateLimitStore
          THEN result.allowed /\ rateLimitStore'[FlagKey] = FreshEntry(now)
          ELSE IF now - rateLimitStore[FlagKey].firstRequest >= config.windowMs
          THEN result.allowed /\ rateLimitStore'[FlagKey] = FreshEntry(now)
          ELSE /\ result.allowed <=> rateLimitStore[FlagKey].count < 5
               /\ rateLimitStore'[FlagKey].count =
                    IF result.allowed THEN rateLimitStore[FlagKey].count + 1
                    ELSE rateLimitStore[FlagKey].count]_vars

\* A check made exactly windowMs after the start of a full window is
\* rejected, with a reset time equal to the instant of the check and a
\* retry delay of 0 seconds.
C5_RejectedAtReset ==
  /\ rlTrace # <<>>
  /\ LET e == rlTrace[Len(rlTrace)]
     IN /\ e.identifier = FlagId
        /\ e.at = RATE_LIMIT_CONFIGS.flagSubmission.windowMs
        /\ ~e.result.allowed
        /\ e.result.resetTime = e.at
        /\ e.result.retryAfter = 0
  /\ rateLimitStore[FlagKey].firstRequest = 0

\* The submit requests that passed the rate check at or after instant t
\* and less than one window later, among those selected by field f
\* (1: address hash, 2: identity) having value v.
PassedFrom(t, f, v) ==
  {i \in 1..Len(rlTrace) :
     /\ rlTrace[i].identifier[1] = "flagSubmission"
     /\ rlTrace[i].identifier[2][f] = v
     /\ rlTrace[i].result.allowed
     /\ rlTrace[i].at >= t
     /\ rlTrace[i].at - t < RATE_LIMIT_CONFIGS.flagSubmission.windowMs}

\* C6: the identifier strategy of the flag-submission limit.  Within one
\* window, at most maxRequests submit requests pass the rate check for a
\* fixed identity over all addresses, and at most maxRequests for a fixed
\* address over all identities.
C6_IdentifierStrategy ==
  \A i \in 1..Len(rlTrace) :
    LET t == rlTrace[i].at
        max == RATE_LIMIT_CONFIGS.flagSubmission.maxRequests
    IN /\ \A u \in Uids : Cardinality(PassedFrom(t, 2, u)) <= max
       /\ \A a \in Ips : Cardinality(PassedFrom(t, 1, hashIpAddress(a))) <= max

\* Six requests of u1 passed the rate check at one instant: five from one
\* address, which filled its window, and one from a second address.
C6_RotatedAddress ==
  /\ Cardinality(PassedFrom(0, 2, "u1")) = 6
  /\ Cardinality(PassedFrom(0, 1, hashIpAddress("ip1"))) = 5
  /\ rateLimitStore[<<"rate", <<"flagSubmission", rateLimitKey(
        SubmitRequest("u1", "valid", "ip1", "c1", <<"a">>))>>>>].count = 5

\* C7: the step order of a submission.  The rate check is the first call
\* of every submit request, and a request answered 429 has made no call to
\* authentication.
C7_RateCheckFirst ==
  \A p \in Procs :
    req[p].kind = "submit" =>
      /\ loc[p].calls # <<>> => loc[p].calls[1] = "rate"
      /\ resp[p].status = 429 => ~includes(loc[p].calls, "auth")

\* A request answered 429 had authenticated before its rate check.
C7_AuthenticatedThenLimited ==
  /\ req[1].kind = "submit" /\ pc[1] = "done"
  /\ resp[1].status = 429
  /\ loc[1].calls = <<"auth", "rate">>

EarlyRejections == {400, 401, 403, 429}

\* C8: no partial side effects on early rejection.  The authentication
\* step and the step of the rate check and validation leave the users, the
\* challenges and the submissions as they were, and a submit request
\* answered 400, 401, 403 or 429 is answered by one of these two steps,
\* having taken no other.
C8_NoPartialSideEffects ==
  [][\A p \in Procs :
       /\ (pc[p] \in {"idle", "auth", "rate"} /\ pc'[p] # pc[p]) =>
            UNCHANGED storeVars
       /\ (pc[p] # "done" /\ pc'[p] = "done"
             /\ resp'[p].status \in EarlyRejections) =>
            /\ pc[p] \in {"auth", "rate"}
            /\ Range(loc'[p].calls) \subseteq {"auth", "rate"}]_vars

\* A request is answered 429 after five requests left their records.
C8_Witness ==
  /\ pc[1] = "done" /\ resp[1].status = 429
  /\ BagCardinality(submissions) = 5
  /\ now = 0

\* The request of slot p has authenticated, and carries the right flag of
\* an active challenge that its user had not solved at that moment.
CorrectAndUnsolved(p) ==
  LET c == req[p].challengeId
  IN /\ includes(loc[p].calls, "auth")
     /\ CarriesCorrectFlag(p, req[p].uid, c)
     /\ challengeDoc(c).isActive
     /\ ~includes(loc[p].userData.solvedChallenges, c)

\* C9: scenario A, requests in order.  An authenticated request with the
\* right flag of an unsolved active challenge worth p points, of a user
\* whose score is s,
\* is answered correct:true with pointsAwarded p and newScore s + p; and a
\* request identical to the one answered so before it is answered with
\* success, correct:false and the already-solved message, the score
\* remaining s + p.
C9_ScenarioA ==
  [][\A p \in Procs :
       (pc[p] # "done" /\ pc'[p] = "done") =>
         /\ CorrectAndUnsolved(p) =>
              resp'[p] = successResponse("true", GENERIC_ERRORS.FLAG_CORRECT,
                           challenges[req[p].challengeId].points,
                           loc[p].userData.score
                             + challenges[req[p].challengeId].points)
         /\ (p > 1 /\ req[p] = req[p - 1] /\ resp[p - 1].correct = "true") =>
              /\ resp'[p] = successResponse("false",
                              GENERIC_ERRORS.ALREADY_SOLVED, undefined, undefined)
              /\ users'[req[p].uid].score = resp[p - 1].newScore]_vars

\* u1, holding 250 points, was answered correct for c1 with a new score of
\* 350, and the same request again was answered already solved.
C9_Witness ==
  /\ pc[1] = "done" /\ pc[2] = "done"
  /\ req[2] = req[1]
  /\ resp[1].correct = "true" /\ resp[1].pointsAwarded = 100
  /\ resp[1].newScore = 350
  /\ resp[2].message = GENERIC_ERRORS.ALREADY_SOLVED
  /\ users["u1"].score = 350

\* C10: transaction failure.  A submit request that fails in its score
\* transaction is answered with the generic server error (500), not with
\* correct:true, and that step leaves the users and the challenges as they
\* were; and a commit step either writes nothing, or writes the score, the
\* solved challenge and the solve counter together.
C10_TransactionFailure ==
  [][\A p \in Procs :
       /\ (pc[p] \in {"txn", "commit"} /\ pc'[p] = "done") =>
            /\ resp'[p] = errorResponse(GENERIC_ERRORS.SERVER_ERROR, 500)
            /\ resp'[p].correct # "true"
            /\ users' = users /\ challenges' = challenges
       /\ (pc[p] = "commit" /\ pc'[p] # "commit") =>
            LET u == req[p].uid
                c == req[p].challengeId
            IN \/ users'[u] = users[u] /\ challenges'[c] = challenges[c]
               \/ /\ users'[u].score = loc[p].txnUser.score + challenges[c].points
                  /\ Count(users'[u].solvedChallenges, c) = 1
                  /\ ~includes(users[u].solvedChallenges, c)
                  /\ challenges'[c].solveCount = challenges[c].solveCount + 1]_vars

\* A request with the right flag was answered 500 out of its transaction,
\* and its user holds no award for the challenge.
C10_Witness ==
  \E p \in Procs :
    /\ req[p].kind = "submit" /\ pc[p] = "done"
    /\ resp[p].status = 500
    /\ loc[p].calls = <<"auth", "rate", "match", "audit", "txn", "catch">>
    /\ ~includes(users[req[p].uid].solvedChallenges, req[p].challengeId)
    /\ challenges[req[p].challengeId].solveCount
         = initial.challenges[req[p].challengeId].solveCount
    /\ BagCardinality(submissions) >= 1


\* C11: every rate-limit rejection is reported as 429 with a retry-after
\* hint.  For every check answered allowed = FALSE, the response built
\* from its result has status 429 and carries a Retry-After value.
C11_RetryAfterOnRejection ==
  \A i \in 1..Len(rlTrace) :
    ~rlTrace[i].result.allowed =>
      /\ rateLimitedResponse(rlTrace[i].result).status = 429
      /\ rateLimitedResponse(rlTrace[i].result).retryAfter # undefined

\* A check of the password-reset policy is rejected exactly one window
\* after the window started: retryAfter is 0 and the 429 response has no
\* Retry-After.
C11_RejectionWithoutHint ==
  \E i \in 1..Len(rlTrace) :
    /\ rlTrace[i].identifier = <<"passwordReset", "idA">>
    /\ ~rlTrace[i].result.allowed
    /\ rlTrace[i].result.retryAfter = 0
    /\ rateLimitedResponse(rlTrace[i].result).status = 429
    /\ rateLimitedResponse(rlTrace[i].result).retryAfter = undefined


\* The submit request of slot p names a challenge that the store does not
\* hold or that is inactive.
NamesNoActiveChallenge(p) ==
  /\ req[p].kind = "submit"
  /\ ~challengeDoc(req[p].challengeId).exists
       \/ ~challengeDoc(req[p].challengeId).isActive

\* C12: not-found handling.  A submit request that reaches the fetch of
\* its challenge (authenticated, within the rate limit, valid, challenge
\* not among the solved ones read at authentication) and names an absent
\* or an inactive challenge is answered there, in both cases with the same
\* response, 404 with the generic not-found body; and no step of such a
\* request changes the users, the challenges or the submissions.
C12_NotFound ==
  [][\A p \in Procs :
       (NamesNoActiveChallenge(p) /\ pc'[p] # pc[p]) =>
         /\ UNCHANGED storeVars
         /\ pc[p] = "fetch" =>
              /\ pc'[p] = "done"
              /\ resp'[p] = errorResponse(GENERIC_ERRORS.NOT_FOUND, 404)
              /\ Range(loc'[p].calls) = {"auth", "rate", "fetch"}]_vars

\* A request for the inactive challenge and a request for an absent
\* challenge id were answered alike with 404, and no submission record
\* exists.
C12_Witness ==
  /\ pc[1] = "done" /\ pc[2] = "done"
  /\ req[1].challengeId = "c3" /\ req[2].challengeId = "c9"
  /\ resp[1].status = 404
  /\ resp[1] = resp[2]
  /\ submissions = EmptyBag


\* C13: normalization is the same at write time and at check time.  For
\* every submit request that reached the comparison (its secret passed
\* validation): the request is judged correct when the challenge's
\* fingerprint was created from the submitted secret, and judged incorrect
\* when the submitted secret and the challenge's secret differ after trim
\* and lower-casing.
C13_SameNormalization ==
  \A p \in Procs :
    (req[p].kind = "submit" /\ includes(loc[p].calls, "match")) =>
      LET S1 == req[p].flag
          stored == loc[p].challenge.flagHash
      IN /\ stored = seedHashFlag(S1) => loc[p].isCorrect
         /\ stored # Sha256Hex(FLAG_HASH_SALT, toLowerCase(trim(S1))) =>
              ~loc[p].isCorrect

\* The challenge was seeded with the secret "a<", and a submission of
\* "a<" was answered as an incorrect flag.
C13_OwnSecretRejected ==
  /\ challenges["c1"].flagHash = seedHashFlag(<<"a", "<">>)
  /\ pc[1] = "done"
  /\ req[1].flag = <<"a", "<">>
  /\ resp[1].status = 200 /\ resp[1].correct = "false"
  /\ resp[1].message = GENERIC_ERRORS.FLAG_INCORRECT


\* A secret after normalization, as the matcher's contract words it: case
\* folded, leading and trailing whitespace removed.
Normalized(S) == trim(toLowerCase(S))

\* The laws of hashFlag and validateFlag over the secrets.
FingerprintLaws ==
  /\ \A S \in Secrets :
       /\ validateFlag(S, hashFlag(S))
       /\ hashFlag(S) = hashFlag(trim(S))
       /\ hashFlag(S) = hashFlag(toLowerCase(S))
  /\ \A S1, S2 \in Secrets :
       validateFlag(S1, hashFlag(S2)) <=> Normalized(S1) = Normalized(S2)

\* C14: fingerprint round trip and normalization symmetry (the digest taken
\* as collision free).  validateFlag(S1, hashFlag(S2)) is true exactly when
\* S1 and S2 are equal after normalization; validateFlag(S, hashFlag(S)) is
\* true for every S; hashFlag(S) = hashFlag(trim(S)) = hashFlag(toLower(S));
\* and the comparison a submit request has made against the stored
\* fingerprint of secret S2 came out true exactly when the flag it
\* compared equals S2 after normalization.  The laws of the functions do
\* not depend on the state: they are evaluated where no request has
\* arrived yet.
C14_FingerprintRoundTrip ==
  /\ (\A p \in Procs : pc[p] = "idle") => FingerprintLaws
  /\ \A p \in Procs, S2 \in Secrets :
       (pc[p] \in {"audit", "txn", "commit", "post"}
          /\ loc[p].challenge.flagHash = seedHashFlag(S2)) =>
         (loc[p].isCorrect <=>
            Normalized(loc[p].sanitizedFlag) = Normalized(S2))

\* The flag "A" was compared with the fingerprint of the secret " a" and
\* matched.
C14_Witness ==
  \E p \in Procs :
    /\ pc[p] = "audit"
    /\ loc[p].sanitizedFlag = <<"A">>
    /\ loc[p].challenge.flagHash = seedHashFlag(<<" ", "a">>)
    /\ loc[p].isCorrect


\* The response r has no field for the fingerprint or the salt, in its
\* body or in the challenges it lists.
NoFingerprintField(r) ==
  /\ DOMAIN r \cap {"flagHash", "salt"} = {}
  /\ \A i \in 1..Len(r.data) : DOMAIN r.data[i] \cap {"flagHash", "salt"} = {}

\* The responses a submit request may get once it has fetched its
\* challenge, told from the match outcome, the challenge's points and the
\* user's score, without the fingerprint.
ResponsesByOutcome(p) ==
  {errorResponse(GENERIC_ERRORS.SERVER_ERROR, 500)}
    \cup (IF pc[p] = "fetch"
          THEN {errorResponse(GENERIC_ERRORS.NOT_FOUND, 404)}
          ELSE IF pc[p] = "audit" /\ ~loc[p].isCorrect
          THEN {successResponse("false", GENERIC_ERRORS.FLAG_INCORRECT,
                                undefined, undefined)}
          ELSE IF pc[p] = "post" /\ loc[p].isCorrect
          THEN {successResponse("true", GENERIC_ERRORS.FLAG_CORRECT,
                                loc[p].challenge.points,
                                loc[p].userData.score + loc[p].challenge.points)}
          ELSE {})

\* C15: no leakage.  No response of the submit handler or of the two
\* challenge read handlers has a field for the stored fingerprint or the
\* salt; and whatever fingerprint the challenge holds, the response of a
\* submit request that read it is fixed by the match outcome and by public
\* data (generic messages, the challenge's points, the user's score), so
\* two stores that differ in the fingerprint alone give the same response
\* to a request with the same match outcome.
C15_NoLeakage ==
  [][\A p \in Procs :
       (pc[p] # "done" /\ pc'[p] = "done") =>
         /\ NoFingerprintField(resp'[p])
         /\ (req[p].kind = "submit"
               /\ pc[p] \in {"fetch", "audit", "txn", "commit", "post"}) =>
              resp'[p] \in ResponsesByOutcome(p)]_vars

\* With the challenge seeded from the secret "ab": the list of challenges
\* was answered with the two active ones, and a submission was answered
\* correct.
C15_Witness ==
  /\ challenges["c1"].flagHash = seedHashFlag(<<"a", "b">>)
  /\ pc[1] = "done" /\ req[1].kind = "list"
  /\ Len(resp[1].data) = 2 /\ resp[1].data[1].id = "c1"
  /\ pc[2] = "done" /\ req[2].kind = "submit"
  /\ resp[2].correct = "true" /\ resp[2].newScore = 100


\* C17: first-touch creation.  The commit of a correct submission of a
\* user without a document creates the document and applies the award in
\* one step: the committed document has the challenge's points as score,
\* the challenge alone as solved, isBanned and isAdmin false; and no state
\* shows a document created this way without its award.
C17_FirstTouchCreation ==
  [][/\ \A p \in Procs :
          (pc[p] = "commit" /\ pc'[p] = "post"
             /\ ~users[req[p].uid].exists) =>
            LET created == users'[req[p].uid]
            IN /\ created.exists
               /\ created.score = challenges[req[p].challengeId].points
               /\ created.solvedChallenges = <<req[p].challengeId>>
               /\ ~created.isBanned /\ ~created.isAdmin
     /\ \A u \in Uids :
          (~initial.users[u].exists /\ users'[u].exists) =>
            /\ users'[u].solvedChallenges # <<>>
            /\ users'[u].score = SumPoints(users'[u].solvedChallenges)]_vars

\* u1 had no document, and its first correct submission left one with the
\* award of c1.
C17_Witness ==
  /\ ~initial.users["u1"].exists
  /\ users["u1"].exists
  /\ users["u1"].score = 100 /\ users["u1"].solvedChallenges = <<"c1">>
  /\ ~users["u1"].isBanned /\ ~users["u1"].isAdmin
  /\ \E p \in Procs : pc[p] = "done" /\ resp[p].correct = "true"


\* A submit request that passed authentication and validation for a
\* challenge among the solved ones of the user document read at
\* authentication.
AlreadySolvedCase(p) ==
  /\ req[p].kind = "submit"
  /\ includes(loc[p].calls, "auth")
  /\ req[p].challengeId # ""
  /\ Len(sanitizeInput(req[p].flag)) \in 1..MaxFlagLength
  /\ includes(loc[p].userData.solvedChallenges, req[p].challengeId)

\* A submit request that passed authentication and validation with an
\* incorrect flag for an existing, active challenge not among the solved
\* ones.
IncorrectCase(p) ==
  /\ req[p].kind = "submit"
  /\ includes(loc[p].calls, "auth")
  /\ Len(sanitizeInput(req[p].flag)) \in 1..MaxFlagLength
  /\ challengeDoc(req[p].challengeId).exists
  /\ challengeDoc(req[p].challengeId).isActive
  /\ ~includes(loc[p].userData.solvedChallenges, req[p].challengeId)
  /\ ~validateFlag(sanitizeInput(req[p].flag),
                   challengeDoc(req[p].challengeId).flagHash)

NormalNegative(message) ==
  successResponse("false", message, undefined, undefined)

\* C18: incorrect-flag and already-solved are normal outcomes.  A submit
\* request with an incorrect flag for an existing active unsolved challenge,
\* and one for a challenge already among the caller's solved ones, is
\* answered (unless the rate limit or a store failure ends it first) with
\* HTTP 200, success true, correct false and no award; and no step of such
\* a request changes a user document or a challenge document.
C18_NormalNegativeOutcomes ==
  [][\A p \in Procs :
       (pc'[p] # pc[p] /\ (AlreadySolvedCase(p) \/ IncorrectCase(p))) =>
         /\ users' = users
         /\ challenges' = challenges
         /\ (pc'[p] = "done" /\ resp'[p].status \notin {429, 500}) =>
              /\ resp'[p].status = 200 /\ resp'[p].success
              /\ resp'[p].correct = "false"
              /\ resp'[p] = IF AlreadySolvedCase(p)
                            THEN NormalNegative(GENERIC_ERRORS.ALREADY_SOLVED)
                            ELSE NormalNegative(GENERIC_ERRORS.FLAG_INCORRECT)]_vars

\* Both outcomes occurred: one request was answered "already solved" and
\* another "incorrect flag", with the users' scores and the solve counters
\* as they were.
C18_Witness ==
  /\ pc[1] = "done" /\ pc[2] = "done"
  /\ resp[1] = NormalNegative(GENERIC_ERRORS.ALREADY_SOLVED)
  /\ resp[2] = NormalNegative(GENERIC_ERRORS.FLAG_INCORRECT)
  /\ req[1].kind = "submit" /\ req[2].kind = "submit"
  /\ includes(users[req[1].uid].solvedChallenges, req[1].challengeId)
  /\ ~includes(users[req[2].uid].solvedChallenges, req[2].challengeId)
  /\ challengeDoc(req[2].challengeId).isActive
  /\ users = initial.users
  /\ challenges = initial.challenges


\* The window map and the results of the checks of a trace, made at the
\* trace's instants on a map that is never purged.
RECURSIVE WithoutPurge(_, _)
WithoutPurge(trace, n) ==
  IF n = 0 THEN [store |-> <<>>, results |-> <<>>]
  ELSE LET before == WithoutPurge(trace, n - 1)
           r == applyRateLimit(before.store, trace[n].identifier[1],
                               trace[n].identifier[2], trace[n].at)
       IN [store |-> r.store, results |-> Append(before.results, r.result)]

\* C19: the purge is not a correctness requirement.  Whatever checks were
\* made, at whatever instants, with purges run in between at any time,
\* every check returned what the same check returns in the same sequence
\* on a map that is never purged.
C19_PurgeIsNotRequired ==
  WithoutPurge(rlTrace, Len(rlTrace)).results =
    [i \in 1..Len(rlTrace) |-> rlTrace[i].result]

\* A purge removed windows (the map lacks the password-reset window the
\* never-purged map still holds), and the flag-submission identifier was
\* checked before and again after its window had become removable.
C19_Witness ==
  /\ Len(rlTrace) >= 3
  /\ <<"rate", <<"passwordReset", "idA">>>> \notin DOMAIN rateLimitStore
  /\ <<"rate", <<"passwordReset", "idA">>>> \in
       DOMAIN WithoutPurge(rlTrace, Len(rlTrace)).store
  /\ \E i, j \in 1..Len(rlTrace) :
       /\ i < j
       /\ rlTrace[i].identifier = FlagId /\ rlTrace[j].identifier = FlagId
       /\ rlTrace[j].at - rlTrace[i].at > maxWindow
       /\ rlTrace[j].result.allowed


\* C20: outcomes and precedence of authenticateRequest.  Whatever handler
\* calls it: a credential that does not verify is answered 401; otherwise
\* an identity without a verified email is answered 403 (email not
\* verified), whether or not its user is banned; otherwise a banned user
\* is answered 403; only otherwise does the handler go on, holding (where
\* it keeps it) the user document read, none for a user without a
\* document; and in every case the step writes nothing to the store.
C20_AuthenticationPrecedence ==
  [][\A p \in Procs :
       (pc[p] = "auth" /\ pc'[p] # pc[p]) =>
         LET doc == users[req[p].uid]
         IN /\ UNCHANGED storeVars
            /\ CASE req[p].token = "invalid" ->
                      /\ pc'[p] = "done"
                      /\ resp'[p] = errorResponse(GENERIC_ERRORS.UNAUTHORIZED, 401)
                 [] req[p].token = "unverified" ->
                      /\ pc'[p] = "done"
                      /\ resp'[p] =
                           errorResponse(GENERIC_ERRORS.EMAIL_NOT_VERIFIED, 403)
                 [] req[p].token = "valid" /\ doc.exists /\ doc.isBanned ->
                      /\ pc'[p] = "done"
                      /\ resp'[p].status = 403 /\ ~resp'[p].success
                 [] OTHER ->
                      /\ pc'[p] # "done"
                      /\ resp'[p] = resp[p]
                      /\ req[p].kind # "profile" => loc'[p].userData = doc]_vars

\* The banned user was answered 403 as banned with a verified credential
\* and 403 as unverified with an unverified one, and the store is as it was.
C20_Witness ==
  /\ users["u2"].isBanned
  /\ pc[1] = "done" /\ pc[2] = "done"
  /\ req[1].uid = "u2" /\ req[1].token = "valid"
  /\ resp[1] = errorResponse(GENERIC_ERRORS.UNAUTHORIZED, 403)
  /\ req[2].uid = "u2" /\ req[2].token = "unverified"
  /\ resp[2] = errorResponse(GENERIC_ERRORS.EMAIL_NOT_VERIFIED, 403)
  /\ users = initial.users /\ submissions = EmptyBag


\* The fields of a user document the scoring owns, with its existence.
ScoringFields(doc) ==
  <<doc.exists, doc.score, doc.solvedChallenges, doc.cheatedChallenges,
    doc.isBanned, doc.isAdmin>>

\* C21: the frame of the profile edit.  Every step of a profile request,
\* whatever other requests are between their own steps (a score
\* transaction for the same user between its read and its commit
\* included), leaves every user's score, solved set, banned flag and admin
\* flag, every other user's document, the challenges and the submissions
\* as they were; its write sets the caller's display name to the sanitized
\* name of the request.
C21_ProfileFrame ==
  [][\A p \in Procs :
       (req[p].kind = "profile" /\ pc'[p] # pc[p]) =>
         /\ \A u \in Uids : ScoringFields(users'[u]) = ScoringFields(users[u])
         /\ \A u \in Uids \ {req[p].uid} : users'[u] = users[u]
         /\ challenges' = challenges /\ submissions' = submissions
         /\ (pc[p] = "p_write" /\ users[req[p].uid].exists) =>
              users'[req[p].uid].displayName =
                sanitizeDisplayName(req[p].displayName)]_vars

\* The profile edit of u1 was written while a score transaction for u1
\* was between its read and its commit.
C21_Witness ==
  \E p, q \in Procs :
    /\ req[p].kind = "profile" /\ pc[p] = "done" /\ resp[p].status = 200
    /\ users[req[p].uid].displayName = <<"a", "b">>
    /\ req[q].kind = "submit" /\ req[q].uid = req[p].uid /\ pc[q] = "commit"
    /\ loc[q].txnUser.ver < users[req[q].uid].ver


\* C22: audit recording never blocks or fails the main flow.  The step of
\* a submission after flag matching adds exactly one submission record
\* with the outcome of the match, and whatever happens to the recording
\* the request goes on as the match decided: to the score transaction when
\* the flag was correct, to the incorrect-flag response when it was not.
C22_AuditNeverBlocks ==
  [][\A p \in Procs :
       (req[p].kind = "submit" /\ pc[p] = "audit" /\ pc'[p] # pc[p]) =>
         /\ submissions' = submissions (+) SetToBag({submissionData(p)})
         /\ IF loc[p].isCorrect
            THEN pc'[p] = "txn"
            ELSE /\ pc'[p] = "done"
                 /\ resp'[p] = successResponse("false",
                                  GENERIC_ERRORS.FLAG_INCORRECT,
                                  undefined, undefined)]_vars

\* A correct flag was matched, the recording of its submission failed, and
\* the request was answered with a server error: no submission record, no
\* award.
C22_RecordingFailureBlocksAward ==
  \E p \in Procs :
    /\ req[p].kind = "submit" /\ pc[p] = "done"
    /\ loc[p].calls = <<"auth", "rate", "match", "catch">>
    /\ loc[p].isCorrect
    /\ resp[p] = errorResponse(GENERIC_ERRORS.SERVER_ERROR, 500)
    /\ submissions = EmptyBag
    /\ users = initial.users /\ challenges = initial.challenges


\* C23: idempotent retry.  Every attempt of the score transaction reads
\* the stored user document anew and decides on it: when the document
\* already holds the challenge (another request committed the award since
\* the attempt before), the attempt takes the no-op branch and neither it
\* nor the rest of the request writes a score, a solved set or a solve
\* counter; an aborted commit writes nothing and runs the attempt again;
\* and a commit that writes does so only for a challenge the stored
\* document does not hold.
C23_IdempotentRetry ==
  [][\A p \in Procs :
       (req[p].kind = "submit" /\ pc'[p] # pc[p]) =>
         LET stored == users[req[p].uid]
             solved == stored.exists /\
                         includes(stored.solvedChallenges, req[p].challengeId)
         IN /\ pc[p] = "txn" =>
                 /\ loc'[p].txnUser = stored
                 /\ loc'[p].attempts = loc[p].attempts + 1
                 /\ pc'[p] = IF solved THEN "post" ELSE "commit"
                 /\ UNCHANGED storeVars
            /\ pc[p] = "commit" =>
                 IF stored.ver # loc[p].txnUser.ver
                 THEN pc'[p] = "txn" /\ UNCHANGED storeVars
                 ELSE /\ ~solved
                      /\ pc'[p] = "post"
            /\ pc[p] = "post" => UNCHANGED storeVars]_vars

\* A request ran its transaction a second time after another request had
\* committed the award of the same user and challenge: the second attempt
\* took the no-op branch, and the score and the counter hold one award.
C23_Witness ==
  \E p, q \in Procs :
    /\ p # q
    /\ req[p].kind = "submit" /\ req[q].kind = "submit"
    /\ req[p].uid = req[q].uid /\ req[p].challengeId = req[q].challengeId
    /\ pc[p] = "post" /\ loc[p].attempts = 2
    /\ includes(loc[p].txnUser.solvedChallenges, req[p].challengeId)
    /\ pc[q] \in {"post", "done"}
    /\ users[req[p].uid].score =
         initial.users[req[p].uid].score + loc[p].challenge.points
    /\ challenges[req[p].challengeId].solveCount =
         initial.challenges[req[p].challengeId].solveCount + 1


\* The four-case table of a check, against the step that made it: the
\* window of the checked key before and after, the result returned, and
\* the windows of the other keys.  The hint of a rejection is the time to
\* the end of the window, in whole seconds rounded up or as it is.
FollowsTable(inSeconds) ==
  rlTrace' # rlTrace =>
    LET e      == rlTrace'[Len(rlTrace')]
        key    == <<"rate", e.identifier>>
        config == RATE_LIMIT_CONFIGS[e.identifier[1]]
        old    == rateLimitStore
        new    == rateLimitStore'
        left   == old[key].firstRequest + config.windowMs - now
    IN /\ key \in DOMAIN new
       /\ \A k \in (DOMAIN old \cup DOMAIN new) \ {key} :
            k \in DOMAIN old /\ k \in DOMAIN new /\ new[k] = old[k]
       /\ IF key \notin DOMAIN old
          THEN /\ e.result.allowed
               /\ new[key].count = 1 /\ new[key].firstRequest = now
          ELSE IF now - old[key].firstRequest > config.windowMs
          THEN /\ e.result.allowed
               /\ new[key].count = 1 /\ new[key].firstRequest = now
          ELSE IF old[key].count < config.maxRequests
          THEN /\ e.result.allowed
               /\ new[key].count = old[key].count + 1
               /\ new[key].firstRequest = old[key].firstRequest
          ELSE /\ ~e.result.allowed
               /\ e.result.retryAfter =
                    (IF inSeconds THEN CeilSeconds(left) ELSE left)
               /\ new[key].count = old[key].count
               /\ new[key].firstRequest = old[key].firstRequest

\* C24, as stated: checkRateLimit follows the four-case table, a rejection
\* carrying retry-after = windowStart + windowMs - now.
C24_FourCaseTableAsStated == [][FollowsTable(FALSE)]_vars

\* C24, amended: checkRateLimit follows the four-case table, a rejection
\* carrying retryAfter = the least whole number of seconds not less than
\* (windowStart + windowMs - now) / 1000; every check returns a result, and
\* a check of one identifier leaves the windows of the others as they were.
C24_FourCaseTable == [][FollowsTable(TRUE)]_vars

\* The four cases occurred for one key: created, filled, rejected one
\* millisecond after its start with a hint of 60 (seconds, not 59999), and
\* reset by the check after its end.
C24_Witness ==
  /\ Len(rlTrace) = RATE_LIMIT_CONFIGS.flagSubmission.maxRequests + 2
  /\ \A i \in 1..Len(rlTrace) : rlTrace[i].identifier = FlagId
  /\ LET rejected == rlTrace[Len(rlTrace) - 1]
         last == rlTrace[Len(rlTrace)]
     IN /\ ~rejected.result.allowed /\ rejected.at = 1
        /\ rejected.result.retryAfter = 60
        /\ last.at = RATE_LIMIT_CONFIGS.flagSubmission.windowMs + 1
        /\ last.result.allowed
        /\ rateLimitStore[FlagKey] = FreshEntry(last.at)


\* The checks of the trace for an identifier answered 'allowed' at an
\* instant of the interval [from, from + length).
AllowedWithin(id, from, length) ==
  {j \in 1..Len(rlTrace) :
     /\ rlTrace[j].identifier = id
     /\ rlTrace[j].result.allowed
     /\ rlTrace[j].at >= from /\ rlTrace[j].at < from + length}

\* C25: the limiter is a sliding-window counter.  For every identifier and
\* policy, every interval of length windowMs (taken from the instant of
\* any check) holds at most maxRequests checks answered 'allowed'.
C25_SlidingWindow ==
  \A i \in 1..Len(rlTrace) :
    LET config == RATE_LIMIT_CONFIGS[rlTrace[i].identifier[1]]
    IN Cardinality(AllowedWithin(rlTrace[i].identifier, rlTrace[i].at,
                                 config.windowMs)) <= config.maxRequests

\* Six flag-submission checks of one identifier were allowed within two
\* milliseconds: four at the last instant of a window opened 60 s before,
\* two after its reset one millisecond later.
C25_BurstAcrossReset ==
  /\ Cardinality(AllowedWithin(FlagId,
                               RATE_LIMIT_CONFIGS.flagSubmission.windowMs, 2))
       = RATE_LIMIT_CONFIGS.flagSubmission.maxRequests + 1
  /\ rlTrace[1].identifier = FlagId /\ rlTrace[1].at = 0
  /\ \A j \in 1..Len(rlTrace) : rlTrace[j].result.allowed


\* The steps of the orchestrator in their order; the attempts of the score
\* transaction (read and commit) are one step.
StepRank(at) ==
  CASE at = "idle" -> 0 [] at = "auth" -> 1 [] at = "rate" -> 2
    [] at = "fetch" -> 3 [] at = "audit" -> 4
    [] at \in {"txn", "commit"} -> 5
    [] at = "post" -> 6 [] at = "done" -> 7

Solvers(docs, c) ==
  {u \in Uids : docs[u].exists /\ includes(docs[u].solvedChallenges, c)}

\* Every solve counter is 0 and every solved set is empty at the start.
StartsUnsolved ==
  /\ \A c \in ChallengeIds : initial.challenges[c].solveCount = 0
  /\ \A u \in Uids : initial.users[u].solvedChallenges = <<>>

\* C27: solve-counter consistency.  From a start where every counter is 0
\* and every solved set is empty, after every step of any interleaving of
\* flag submissions and cheat-reveals each challenge's solve counter is the
\* number of user documents whose solved set holds the challenge, and no
\* step makes a counter smaller.
C27_SolveCounterConsistency ==
  [][StartsUnsolved =>
       \A c \in ChallengeIds :
         /\ challenges'[c].solveCount = Cardinality(Solvers(users', c))
         /\ challenges'[c].solveCount >= challenges[c].solveCount]_vars

\* From such a start the counter of c1 is 1 and no user document holds c1
\* as solved: the cheat-reveal of u1 has set the document u1's submission
\* had been awarded in.
C27_CounterWithoutSolver ==
  /\ StartsUnsolved
  /\ challenges["c1"].solveCount = 1
  /\ Solvers(users, "c1") = {}
  /\ users["u1"].exists /\ users["u1"].cheatedChallenges = <<"c1">>
  /\ \E p \in Procs : req[p].kind = "cheat" /\ pc[p] = "done"
                      /\ resp[p].status = 200


\* The answered requests of u for c whose response reports correct:true
\* with pointsAwarded.
AwardResponses(u, c) ==
  {p \in Procs :
     /\ req[p].kind = "submit" /\ pc[p] = "done"
     /\ req[p].uid = u /\ req[p].challengeId = c
     /\ resp[p].correct = "true" /\ resp[p].pointsAwarded # undefined}

RECURSIVE SumAwarded(_)
SumAwarded(S) ==
  IF S = {} THEN 0
  ELSE LET p == CHOOSE q \in S : TRUE
       IN resp[p].pointsAwarded + SumAwarded(S \ {p})

\* C28: responses agree with awards.  For each identity and challenge at
\* most one response reports correct:true with pointsAwarded, and once
\* every request is answered the pointsAwarded reported to an identity add
\* up to what its committed score has grown by.
C28_ResponsesAgreeWithAwards ==
  \A u \in Uids :
    /\ \A c \in ChallengeIds : Cardinality(AwardResponses(u, c)) <= 1
    /\ Quiescent =>
         SumAwarded(UNION {AwardResponses(u, c) : c \in ChallengeIds}) =
           users[u].score - initial.users[u].score

\* Two concurrent correct submissions of c1 by u1 were both answered
\* correct:true with pointsAwarded 100, and the committed score grew by 100.
C28_TwoAwardsReported ==
  /\ Quiescent
  /\ Cardinality(AwardResponses("u1", "c1")) = 2
  /\ \A p \in AwardResponses("u1", "c1") : resp[p].pointsAwarded = 100
  /\ users["u1"].score = initial.users["u1"].score + 100


\* Check j of the trace is the next check of check i's identifier.
NextCheckOfKey(i, j) ==
  /\ i < j
  /\ rlTrace[j].identifier = rlTrace[i].identifier
  /\ \A k \in (i + 1)..(j - 1) : rlTrace[k].identifier # rlTrace[i].identifier

\* C29: retry-after is honest.  When a check is rejected at time t with
\* retryAfter = r seconds and the next check of the same key and policy is
\* made at t + 1000 r milliseconds, that check is allowed.
C29_RetryAfterHonest ==
  \A i, j \in 1..Len(rlTrace) :
    (/\ NextCheckOfKey(i, j)
     /\ ~rlTrace[i].result.allowed
     /\ rlTrace[j].at = rlTrace[i].at + 1000 * rlTrace[i].result.retryAfter)
      => rlTrace[j].result.allowed

\* A check rejected at the instant its window started was told to retry
\* after 60 seconds, and the next check of the key, 60 000 ms later, was
\* rejected again.
C29_RejectedAfterWaiting ==
  \E i, j \in 1..Len(rlTrace) :
    /\ NextCheckOfKey(i, j)
    /\ rlTrace[i].identifier = FlagId
    /\ ~rlTrace[i].result.allowed /\ rlTrace[i].at = 0
    /\ rlTrace[i].result.retryAfter = 60
    /\ rlTrace[j].at = 60000
    /\ ~rlTrace[j].result.allowed


\* The key of the flag-submission limit a submission record belongs to.
RecordKey(record) == <<record.ipAddress, record.userId>>

RECURSIVE Copies(_)
Copies(S) ==
  IF S = {} THEN 0
  ELSE LET x == CHOOSE y \in S : TRUE
       IN CopiesIn(x, submissions) + Copies(S \ {x})

\* The submission records of a key, and the flag comparisons made for it:
\* one for each record, and one for each request between its comparison
\* and its record.
RecordsOf(key) == Copies({x \in BagToSet(submissions) : RecordKey(x) = key})

ComparisonsOf(key) ==
  RecordsOf(key) +
    Cardinality({p \in Procs : /\ req[p].kind = "submit"
                               /\ rateLimitKey(req[p]) = key
                               /\ pc[p] = "audit"})

\* The checks of a flag-submission key answered 'allowed', all of them and
\* those before instant t.
AllowedChecks(key) ==
  {i \in 1..Len(rlTrace) : /\ rlTrace[i].identifier = <<"flagSubmission", key>>
                           /\ rlTrace[i].result.allowed}

AllowedBefore(key, t) == {i \in AllowedChecks(key) : rlTrace[i].at < t}

\* C30: the brute-force bound.  A request that has compared a flag made its
\* flag-submission rate check before, and the check was answered
\* 'allowed' as one of the maxRequests of its window; so for every key
\* (address hash, identity) there are no more flag comparisons than allowed
\* checks, and no more than maxRequests comparisons and submission records
\* on top of those of the checks made before the live window.
C30_BruteForceBound ==
  LET max == RATE_LIMIT_CONFIGS.flagSubmission.maxRequests
  IN /\ \A p \in Procs :
          (req[p].kind = "submit" /\ includes(loc[p].calls, "match")) =>
            /\ \E i, j \in 1..Len(loc[p].calls) :
                 i < j /\ loc[p].calls[i] = "rate" /\ loc[p].calls[j] = "match"
            /\ rlTrace # <<>>
            /\ LET e == rlTrace[Len(rlTrace)]
               IN /\ e.identifier = <<"flagSubmission", rateLimitKey(req[p])>>
                  /\ e.result.allowed
                  /\ e.result.remaining \in 0..(max - 1)
     /\ \A k \in DOMAIN rateLimitStore :
          k[2][1] = "flagSubmission" =>
            LET key == k[2][2]
                before == Cardinality(AllowedBefore(key, rateLimitStore[k].firstRequest))
            IN /\ ComparisonsOf(key) <= Cardinality(AllowedChecks(key))
               /\ Cardinality(AllowedChecks(key)) - before <= max
               /\ ComparisonsOf(key) - before <= max
               /\ RecordsOf(key) - before <= max

\* Five flags of one key were compared and recorded in one window, and the
\* sixth request of the window was answered 429 without a comparison.
C30_Witness ==
  LET key == rateLimitKey(SubmitRequest("u1", "valid", "ip1", "c1", <<"a">>))
  IN /\ now = 0
     /\ RecordsOf(key) = RATE_LIMIT_CONFIGS.flagSubmission.maxRequests
     /\ req[1].kind = "submit" /\ rateLimitKey(req[1]) = key
     /\ pc[1] = "done" /\ resp[1].status = 429
     /\ ~includes(loc[1].calls, "match")


====
